---------------------------- MODULE Spec2Model ----------------------------
(***************************************************************************)
(* A model of emrun: the SHA-256 digest policy carried by a context         *)
(* (policy.go), the parsing of digest sources, and the runnable handle      *)
(* with its memfd -> temporary file fallback (runnable.go, emrun.go,        *)
(* efrun).                                                                   *)
(*                                                                          *)
(* Bytes and characters are integers 0..255 (characters by their ASCII      *)
(* code); a Go string, []byte or [32]byte is a sequence of them.            *)
(***************************************************************************)
EXTENDS Integers, Sequences, FiniteSets, TLC

VARIABLES
    pin,      \* SpecParse: the digest sources given to collectDigests
    pout,     \* SpecParse: what collectDigests returned
    ctxs,     \* SpecPolicy: the contexts derived so far (a tree, by parent index)
    pols,     \* SpecPolicy: the heap of *executionPolicy objects
    hist,     \* SpecPolicy: for each context, the call that derived it
    plast,    \* SpecPolicy: the last policy call and what it returned
    r,        \* Spec: the runnable handle
    fs,       \* Spec: the temporary files that exist on disk
    last,     \* Spec: the last call on the handle and what it returned
    bg,       \* SpecBg: the background job, its process, its monitor and its waiters
    cc        \* SpecCapture: a command, its capture and the streams it writes to

vars == <<pin, pout, ctxs, pols, hist, plast, r, fs, last, bg, cc>>

-----------------------------------------------------------------------------
(* Sizes fixed by the program. *)

\* len(data) == 32: a raw SHA-256 digest ([32]byte)
DigestSize == 32

\* len(data) == 64, len(line) < 64, line[:64]: a digest in hexadecimal
HexDigestLen == 64

-----------------------------------------------------------------------------
(* Characters *)

\* " \t\n\v\f\r": what strings.TrimSpace trims from ASCII text
AsciiSpace == {9, 10, 11, 12, 13, 32}

\* strings.ContainsAny(trimmed, " \t\n\r")
ContainsAnyChars == {32, 9, 10, 13}

\* encoding/hex's table "0123456789abcdef"
HexTable == <<48, 49, 50, 51, 52, 53, 54, 55, 56, 57, 97, 98, 99, 100, 101, 102>>

IsHexChar(c) == (c >= 48 /\ c <= 57) \/ (c >= 97 /\ c <= 102) \/ (c >= 65 /\ c <= 70)

FromHexChar(c) ==
    IF c >= 48 /\ c <= 57 THEN c - 48
    ELSE IF c >= 97 /\ c <= 102 THEN c - 97 + 10
    ELSE c - 65 + 10

\* hex.EncodeToString(b)
EncodeToString(b) ==
    [i \in 1..(2 * Len(b)) |->
        HexTable[(IF i % 2 = 1 THEN b[(i + 1) \div 2] \div 16
                                ELSE b[i \div 2] % 16) + 1]]

\* hex.DecodeString(s): fails on an odd length or on a character that is no
\* hexadecimal digit
DecodeString(s) ==
    LET ok == Len(s) % 2 = 0 /\ \A i \in 1..Len(s) : IsHexChar(s[i])
    IN  [ok    |-> ok,
         bytes |-> IF ok
                   THEN [i \in 1..(Len(s) \div 2) |->
                            16 * FromHexChar(s[2 * i - 1]) + FromHexChar(s[2 * i])]
                   ELSE <<>>]

\* isHexString accepting lower-case digits only
isLowerHexString(value) ==
    \A i \in 1..Len(value) : (value[i] >= 48 /\ value[i] <= 57) \/ (value[i] >= 97 /\ value[i] <= 102)

isHexString(value) ==
    /\ Len(value) # 0
    /\ \A i \in 1..Len(value) : IsHexChar(value[i])

RECURSIVE TrimLeft(_)
TrimLeft(s) ==
    IF Len(s) > 0 /\ s[1] \in AsciiSpace THEN TrimLeft(Tail(s)) ELSE s

RECURSIVE TrimRight(_)
TrimRight(s) ==
    IF Len(s) > 0 /\ s[Len(s)] \in AsciiSpace
    THEN TrimRight(SubSeq(s, 1, Len(s) - 1))
    ELSE s

\* strings.TrimSpace on ASCII text
TrimSpace(s) == TrimRight(TrimLeft(s))

\* bufio.ScanLines drops one trailing '\r' of a line
DropCR(s) ==
    IF Len(s) > 0 /\ s[Len(s)] = 13 THEN SubSeq(s, 1, Len(s) - 1) ELSE s

\* The index of the first '\n' of s, 0 when there is none
FirstNewline(s) ==
    IF \E i \in 1..Len(s) : s[i] = 10
    THEN CHOOSE i \in 1..Len(s) : s[i] = 10 /\ \A j \in 1..(i - 1) : s[j] # 10
    ELSE 0

\* The tokens bufio.Scanner yields with its default split function (ScanLines):
\* the text between newlines, and a last unterminated line when it is not empty
RECURSIVE ScanLines(_)
ScanLines(s) ==
    IF Len(s) = 0 THEN <<>>
    ELSE LET i == FirstNewline(s)
         IN  IF i = 0 THEN <<DropCR(s)>>
             ELSE <<DropCR(SubSeq(s, 1, i - 1))>> \o ScanLines(SubSeq(s, i + 1, Len(s)))

-----------------------------------------------------------------------------
(* Digest sources (policy.go: collectDigests and what it calls).  A parse   *)
(* returns [err, digests]: err = "" is Go's nil error, digests the          *)
(* [][32]byte it returns.                                                   *)

ParseOk(ds) == [err |-> "", digests |-> ds]

ParseErr(e) == [err |-> e, digests |-> <<>>]

decodeSingleDigest(hexDigest) ==
    LET d == DecodeString(hexDigest)
    IN  IF ~d.ok THEN ParseErr("decode sha256 digest")
        ELSE IF Len(d.bytes) # DigestSize THEN ParseErr("unexpected digest length")
        ELSE ParseOk(<<d.bytes>>)

\* The scanner loop of digestsFromString
RECURSIVE scanDigestLines(_, _)
scanDigestLines(lines, digests) ==
    IF Len(lines) = 0 THEN ParseOk(digests)
    ELSE LET line == TrimSpace(Head(lines))
         IN  IF Len(line) = 0 \/ line[1] = 35
             THEN scanDigestLines(Tail(lines), digests)
             ELSE IF Len(line) < HexDigestLen
             THEN ParseErr("line shorter than sha256 digest")
             ELSE LET candidate == SubSeq(line, 1, HexDigestLen)
                  IN  IF ~isHexString(candidate)
                      THEN ParseErr("invalid sha256 digest")
                      ELSE LET d == DecodeString(candidate)
                           IN  IF ~d.ok THEN ParseErr("decode sha256 digest")
                               ELSE scanDigestLines(Tail(lines), Append(digests, d.bytes))

digestsFromString(value) ==
    LET trimmed == TrimSpace(value)
    IN  IF Len(trimmed) = 0 THEN ParseOk(<<>>)
        ELSE IF /\ \A i \in 1..Len(trimmed) : trimmed[i] \notin ContainsAnyChars
                /\ Len(trimmed) = HexDigestLen
                /\ isHexString(trimmed)
        THEN decodeSingleDigest(trimmed)
        ELSE scanDigestLines(ScanLines(value), <<>>)

digestsFromBytes(data) ==
    IF Len(data) = 0 THEN ParseOk(<<>>)
    ELSE IF Len(data) = DigestSize THEN ParseOk(<<data>>)
    ELSE IF Len(data) = HexDigestLen /\ isHexString(data) THEN decodeSingleDigest(data)
    ELSE digestsFromString(data)

(* A digest source, a value of Go's `any`, is [type, chunks, readErr]:      *)
(*   "nil"                        the nil interface                          *)
(*   "array32", "ptr32"           [32]byte, *[32]byte (chunks = <<bytes>>;   *)
(*                                a nil pointer has no chunk)                *)
(*   "bytes", "string", "stringer"  chunks = <<content>>                     *)
(*   "byteslices"                 [][]byte, one chunk per entry              *)
(*   "reader"                     io.Reader yielding chunks[1]; readErr when *)
(*                                reading it fails                           *)
(*   "other"                      any other type                            *)
Source(t, chunks) == [type |-> t, chunks |-> chunks, readErr |-> FALSE]

\* case [][]byte: each entry through digestsFromBytes, the first error ends it
RECURSIVE digestsFromByteSlices(_, _)
digestsFromByteSlices(entries, acc) ==
    IF Len(entries) = 0 THEN ParseOk(acc)
    ELSE LET p == digestsFromBytes(Head(entries))
         IN  IF p.err # "" THEN ParseErr(p.err)
             ELSE digestsFromByteSlices(Tail(entries), acc \o p.digests)

\* One iteration of collectDigests' loop: the type switch
digestsFromValue(v) ==
    CASE v.type = "nil"        -> ParseOk(<<>>)
      [] v.type = "array32"    -> ParseOk(<<v.chunks[1]>>)
      [] v.type = "ptr32"      -> IF Len(v.chunks) = 0 THEN ParseOk(<<>>)
                                  ELSE ParseOk(<<v.chunks[1]>>)
      [] v.type = "bytes"      -> digestsFromBytes(v.chunks[1])
      [] v.type = "byteslices" -> digestsFromByteSlices(v.chunks, <<>>)
      [] v.type = "string"     -> digestsFromString(v.chunks[1])
      [] v.type = "stringer"   -> digestsFromString(v.chunks[1])
      [] v.type = "reader"     -> IF v.readErr THEN ParseErr("read error")
                                  ELSE digestsFromBytes(v.chunks[1])
      [] OTHER                 -> ParseErr("unsupported checksum type")

RECURSIVE collectInto(_, _)
collectInto(values, result) ==
    IF Len(values) = 0 THEN ParseOk(result)
    ELSE LET p == digestsFromValue(Head(values))
         IN  IF p.err # "" THEN ParseErr(p.err)
             ELSE collectInto(Tail(values), result \o p.digests)

collectDigests(values) == collectInto(values, <<>>)

\* The elements of a sequence
Range(s) == {s[i] : i \in 1..Len(s)}


-----------------------------------------------------------------------------
(* SHA-256.  crypto/sha256 is not computed here: Sum256 stands for it as a  *)
(* fixed function that is collision-free on the payloads of the model and   *)
(* never yields the all-zero value.                                          *)

\* The payloads callers embed: the empty payload, a "#!" script, an ELF image
Payloads == {<<>>, <<35, 33>>, <<127, 69, 76>>}

RECURSIVE SeqSum(_)
SeqSum(s) == IF Len(s) = 0 THEN 0 ELSE Head(s) + SeqSum(Tail(s))

\* sha256.Sum256(payload)
Sum256(payload) ==
    [i \in 1..DigestSize |-> (SeqSum(payload) * 31 + Len(payload) * 7 + i * 13 + 171) % 256]

\* sha256hex(data): the digest in lower-case hexadecimal
sha256hex(data) == EncodeToString(Sum256(data))

\* The zero value of a [32]byte field
ZeroDigest == [i \in 1..DigestSize |-> 0]

\* The digests policies are written about
Digests == {Sum256(p) : p \in Payloads}

-----------------------------------------------------------------------------
(* SpecParse: collectDigests applied to one digest source.  The input is    *)
(* either one digest d in one of the accepted formats (noise = FALSE), or a *)
(* text of blank and '#' lines only (noise = TRUE).                          *)

\* strings.ToUpper of a hexadecimal string: sha256sum output in upper case
UpperHex(s) == [i \in 1..Len(s) |-> IF s[i] >= 97 /\ s[i] <= 102 THEN s[i] - 32 ELSE s[i]]

\* n copies of character c
Repeat(c, n) == [i \in 1..n |-> c]

\* What separates the digest from the file name in a checksum line:
\* "  ", " *" (binary mode), a tab
Separators == {<<32, 32>>, <<32, 42>>, <<9>>}

\* File names: "a", "./b c"
FileNames == {<<97>>, <<46, 47, 98, 32, 99>>}

\* What may precede the checksum line: nothing, a blank line, "  \n", "# c\n"
LinesBefore == {<<>>, <<10>>, <<32, 32, 10>>, <<35, 32, 99, 10>>}

\* What may follow it: nothing, "\n", "\r\n", "\n\n#x"
LinesAfter == {<<>>, <<10>>, <<13, 10>>, <<10, 10, 35, 120>>}

ChecksumTexts(d) ==
    {pre \o EncodeToString(d) \o sep \o name \o post :
        pre \in LinesBefore, sep \in Separators, name \in FileNames, post \in LinesAfter}

\* The text types collectDigests reads as multi-line checksum text
TextTypes == {"string", "stringer", "bytes", "reader"}

\* One digest d in every accepted format
FormatsOf(d) ==
    {Source("array32", <<d>>), Source("ptr32", <<d>>), Source("bytes", <<d>>),
     Source("byteslices", <<d>>), Source("reader", <<d>>)}
    \cup
    {Source(t, <<h>>) :
        t \in TextTypes \cup {"byteslices"},
        h \in {EncodeToString(d), UpperHex(EncodeToString(d)),
               <<32>> \o EncodeToString(d) \o <<10>>}}
    \cup
    {Source(t, <<text>>) : t \in TextTypes, text \in ChecksumTexts(d)}

DigestInputs ==
    UNION {{[digest |-> d, noise |-> FALSE, src |-> s] : s \in FormatsOf(d)} : d \in Digests}

\* Texts holding blank lines and comment lines only; three of them are 32
\* bytes long and one is 64 bytes long
NoiseTexts ==
    {<<10>>, <<32, 10, 9, 10>>, <<35, 32, 99>>, <<35, 10, 10>>,
     Repeat(32, DigestSize), Repeat(10, DigestSize),
     <<35>> \o Repeat(120, DigestSize - 2) \o <<10>>,
     <<35>> \o Repeat(97, HexDigestLen - 1),
     <<35>> \o Repeat(97, DigestSize)}

NoiseInputs ==
    {[digest |-> <<>>, noise |-> TRUE, src |-> Source(t, <<text>>)] :
        t \in TextTypes, text \in NoiseTexts}

ParseInputs == DigestInputs \cup NoiseInputs

NotParsed == [done |-> FALSE, err |-> "", digests |-> <<>>]

\* The variables of the other specifications, at rest
PolicyIdle ==
    /\ ctxs = <<>>
    /\ pols = <<>>
    /\ hist = <<>>
    /\ plast = [op |-> "none"]

HandleIdle ==
    /\ r = [open |-> FALSE]
    /\ fs = {}
    /\ last = [op |-> "none"]
    /\ bg = [job |-> "none"]
    /\ cc = [op |-> "none"]

ParseIdle ==
    /\ pin = [noise |-> FALSE]
    /\ pout = NotParsed

InitParse ==
    /\ pin \in ParseInputs
    /\ pout = NotParsed
    /\ PolicyIdle
    /\ HandleIdle

\* collectDigests(pin.src)
Collect ==
    /\ ~pout.done
    /\ LET p == collectDigests(<<pin.src>>)
       IN  pout' = [done |-> TRUE, err |-> p.err, digests |-> p.digests]
    /\ UNCHANGED <<pin, ctxs, pols, hist, plast, r, fs, last, bg, cc>>

NextParse == Collect

SpecParse == InitParse /\ [][NextParse]_vars


-----------------------------------------------------------------------------
(* Errors.  A Go error value is [kind, code, hex, wraps]; wraps are the     *)
(* errors it wraps (Unwrap).                                                 *)

Error(kind, code, hex, wraps) == [kind |-> kind, code |-> code, hex |-> hex, wraps |-> wraps]

\* Go's nil error
Nil == Error("nil", "", <<>>, <<>>)

\* errors.New / fmt.Errorf without %w
ErrorNew(code) == Error("errorString", code, <<>>, <<>>)

\* &PolicyError{Verdict: DENY, Digest: hexDigest}; its Is method matches ErrDenied
PolicyError(hexDigest) == Error("PolicyError", "deny", hexDigest, <<>>)

-----------------------------------------------------------------------------
(* The execution policy (policy.go).  A context is [parent, hasPol, pol]:   *)
(* hasPol when context.WithValue stored a policy under policyKey in it, pol  *)
(* the *executionPolicy stored (an index into the heap of policy objects,    *)
(* 0 for none).                                                              *)

ALLOW == 0

DENY == 1

\* A Verdict is an int: the two named values, and one that is neither
Verdicts == {ALLOW, DENY, DENY + 1}

newExecutionPolicy == [defaultVerdict |-> ALLOW, allow |-> {}, deny |-> {}]

\* A new object on the heap
Alloc(heap, v) == [heap |-> Append(heap, v), ptr |-> Len(heap) + 1]

\* clone returning the receiver itself: parent and child share one object
cloneShared(heap, p) ==
    IF p = 0 THEN Alloc(heap, newExecutionPolicy) ELSE [heap |-> heap, ptr |-> p]

\* clone copying the maps but not the default verdict
cloneWithoutDefault(heap, p) ==
    IF p = 0 THEN Alloc(heap, newExecutionPolicy)
    ELSE Alloc(heap, [defaultVerdict |-> ALLOW, allow |-> heap[p].allow, deny |-> heap[p].deny])

\* p.clone(): a new object with the default and a copy of each map
clone(heap, p) ==
    IF p = 0 THEN Alloc(heap, newExecutionPolicy)
    ELSE Alloc(heap, [defaultVerdict |-> heap[p].defaultVerdict,
                      allow          |-> {k \in heap[p].allow : TRUE},
                      deny           |-> {k \in heap[p].deny : TRUE}])

\* ctx.Value(policyKey{}): the nearest context of the chain that stores one
RECURSIVE policyFromContext(_, _)
policyFromContext(cs, c) ==
    IF c = 0 THEN 0
    ELSE IF cs[c].hasPol THEN cs[c].pol
    ELSE policyFromContext(cs, cs[c].parent)

\* evaluate that never looks at the deny set
evaluateWithoutDeny(heap, p, digest) ==
    IF p = 0 THEN ALLOW
    ELSE IF digest \in heap[p].allow THEN ALLOW
    ELSE heap[p].defaultVerdict

\* (p *executionPolicy).evaluate(digest)
evaluate(heap, p, digest) ==
    IF p = 0 THEN ALLOW
    ELSE IF digest \in heap[p].deny THEN DENY
    ELSE IF digest \in heap[p].allow THEN ALLOW
    ELSE heap[p].defaultVerdict

enforcePolicy(cs, heap, c, digest, hexDigest) ==
    LET policy == policyFromContext(cs, c)
    IN  IF policy = 0 THEN Nil
        ELSE LET v == evaluate(heap, policy, digest)
             IN  IF v = ALLOW THEN Nil
                 ELSE IF v = DENY THEN PolicyError(hexDigest)
                 ELSE Nil

CheckPolicy(cs, heap, c, digest, hexDigest) == enforcePolicy(cs, heap, c, digest, hexDigest)

\* The loop inserting into one set without deleting from the other
RECURSIVE applyRuleNoScrub(_, _, _, _)
applyRuleNoScrub(heap, p, rule, digests) ==
    IF Len(digests) = 0 THEN [heap |-> heap, err |-> ""]
    ELSE IF rule = ALLOW
    THEN applyRuleNoScrub([heap EXCEPT ![p].allow = @ \cup {Head(digests)}], p, rule, Tail(digests))
    ELSE IF rule = DENY
    THEN applyRuleNoScrub([heap EXCEPT ![p].deny = @ \cup {Head(digests)}], p, rule, Tail(digests))
    ELSE [heap |-> heap, err |-> "unsupported verdict"]

\* The loop in which a denied digest stays denied: ALLOW does not delete it
\* from the deny set
RECURSIVE applyRuleDenySticky(_, _, _, _)
applyRuleDenySticky(heap, p, rule, digests) ==
    IF Len(digests) = 0 THEN [heap |-> heap, err |-> ""]
    ELSE IF rule = ALLOW
    THEN applyRuleDenySticky([heap EXCEPT ![p].allow = @ \cup {Head(digests)}], p, rule, Tail(digests))
    ELSE IF rule = DENY
    THEN applyRuleDenySticky([heap EXCEPT ![p].deny = @ \cup {Head(digests)},
                                          ![p].allow = @ \ {Head(digests)}], p, rule, Tail(digests))
    ELSE [heap |-> heap, err |-> "unsupported verdict"]

\* The loop of WithRuleCatchError over the parsed digests, on policy object p
RECURSIVE applyRule(_, _, _, _)
applyRule(heap, p, rule, digests) ==
    IF Len(digests) = 0 THEN [heap |-> heap, err |-> ""]
    ELSE LET digest == Head(digests)
         IN  IF rule = ALLOW
             THEN applyRule([heap EXCEPT ![p].allow = @ \cup {digest},
                                         ![p].deny = @ \ {digest}],
                            p, rule, Tail(digests))
             ELSE IF rule = DENY
             THEN applyRule([heap EXCEPT ![p].deny = @ \cup {digest},
                                         ![p].allow = @ \ {digest}],
                            p, rule, Tail(digests))
             ELSE [heap |-> heap, err |-> "unsupported verdict"]

Context(parent, hasPol, pol) == [parent |-> parent, hasPol |-> hasPol, pol |-> pol]

\* context.Background()
Background == Context(0, FALSE, 0)

\* WithPolicy(ctx, verdict): [cs, heap, ctx]: the contexts and the heap after
\* the call and the context it returns
withPolicy(cs, heap, c, verdict) ==
    LET policy == policyFromContext(cs, c)
        a      == IF policy = 0 THEN Alloc(heap, newExecutionPolicy) ELSE clone(heap, policy)
        heap2  == [a.heap EXCEPT ![a.ptr].defaultVerdict = verdict]
    IN  [cs   |-> Append(cs, Context(c, TRUE, a.ptr)),
         heap |-> heap2,
         ctx  |-> Len(cs) + 1]

\* WithRuleCatchError(ctx, rule, sha256Digests...): [cs, heap, ctx, err].  The
\* clone made before parsing is unreachable when the call returns ctx itself:
\* the heap keeps only the objects a context holds.
withRuleCatchError(cs, heap, c, rule, values) ==
    IF Len(values) = 0 THEN [cs |-> cs, heap |-> heap, ctx |-> c, err |-> ""]
    ELSE LET policy == policyFromContext(cs, c)
             a      == IF policy = 0 THEN Alloc(heap, newExecutionPolicy)
                       ELSE clone(heap, policy)
             parsed == collectDigests(values)
         IN  IF parsed.err # ""
             THEN [cs |-> cs, heap |-> heap, ctx |-> c, err |-> parsed.err]
             ELSE LET applied == applyRule(a.heap, a.ptr, rule, parsed.digests)
                  IN  IF applied.err # ""
                      THEN [cs |-> cs, heap |-> heap, ctx |-> c, err |-> applied.err]
                      ELSE [cs   |-> Append(cs, Context(c, TRUE, a.ptr)),
                            heap |-> applied.heap,
                            ctx  |-> Len(cs) + 1,
                            err  |-> ""]

-----------------------------------------------------------------------------
(* The arguments of the policy calls *)

DA == Sum256(<<35, 33>>)

DB == Sum256(<<127, 69, 76>>)

\* "invalid"
InvalidText == <<105, 110, 118, 97, 108, 105, 100>>

\* The argument lists of WithRule: the values passed, whether one of them is
\* unparseable (bad), and the digests they list
RuleArg(values, bad, digests) == [values |-> values, bad |-> bad, digests |-> digests]

GoodRuleArgs ==
    {RuleArg(<<Source("string", <<EncodeToString(DA)>>)>>, FALSE, {DA}),
     RuleArg(<<Source("reader", <<EncodeToString(DB) \o <<32, 42, 97, 10>>>>),
               Source("array32", <<DA>>)>>, FALSE, {DA, DB})}

\* No value at all; a comment line and a nil value
EmptyRuleArgs ==
    {RuleArg(<<>>, FALSE, {}),
     RuleArg(<<Source("string", <<<<35, 32, 99, 10>>>>), Source("nil", <<>>)>>, FALSE, {})}

\* A valid digest followed by: the text "invalid"; a line of 64 characters
\* that are not hexadecimal; a value of an unsupported type; a reader that
\* fails
BadRuleArgs ==
    {RuleArg(<<Source("array32", <<DB>>), Source("string", <<InvalidText>>)>>, TRUE, {DB}),
     RuleArg(<<Source("bytes", <<EncodeToString(DB) \o <<10>> \o Repeat(122, HexDigestLen)>>)>>,
             TRUE, {DB}),
     RuleArg(<<Source("array32", <<DB>>), Source("other", <<>>)>>, TRUE, {DB}),
     RuleArg(<<Source("array32", <<DB>>),
               [type |-> "reader", chunks |-> <<EncodeToString(DA)>>, readErr |-> TRUE]>>,
             TRUE, {DB})}

RuleArgs == GoodRuleArgs \cup EmptyRuleArgs \cup BadRuleArgs

NoArg == RuleArg(<<>>, FALSE, {})

\* How a context was derived
By(op, verdict, digests) == [op |-> op, verdict |-> verdict, digests |-> digests]

\* The last call: on context ctx, with a verdict and an argument list (bad,
\* listed, nvalues) or a digest; out is the context returned, err the error
\* of WithRuleCatchError ("" for nil), panicked whether WithRule panicked,
\* result the error of CheckPolicy
PLast(op, c, verdict, arg, digest, out, err, panicked, result) ==
    [op |-> op, ctx |-> c, verdict |-> verdict,
     bad |-> arg.bad, listed |-> arg.digests, nvalues |-> Len(arg.values),
     digest |-> digest, out |-> out, err |-> err, panicked |-> panicked,
     result |-> result]

NoCall == PLast("none", 0, ALLOW, NoArg, <<>>, 0, "", FALSE, Nil)

-----------------------------------------------------------------------------
(* SpecPolicy: the contexts derived from context.Background() by            *)
(* WithPolicy, WithRule and context.WithCancel, in any order and from any    *)
(* context derived so far.                                                   *)

\* The most contexts a behaviour derives, context.Background() included
MaxCtxs == 4

InitPolicy ==
    /\ ctxs = <<Background>>
    /\ pols = <<>>
    /\ hist = <<By("Background", ALLOW, {})>>
    /\ plast = NoCall
    /\ ParseIdle
    /\ HandleIdle

WithPolicy ==
    \E c \in 1..Len(ctxs), verdict \in Verdicts :
        /\ Len(ctxs) < MaxCtxs
        /\ \E w \in {withPolicy(ctxs, pols, c, verdict)} :
               /\ ctxs' = w.cs
               /\ pols' = w.heap
               /\ hist' = Append(hist, By("WithPolicy", verdict, {}))
               /\ plast' = PLast("WithPolicy", c, verdict, NoArg, <<>>, w.ctx, "", FALSE, Nil)
        /\ UNCHANGED <<pin, pout, r, fs, last, bg, cc>>

\* WithRule with a supported verdict and at least one argument, all of which
\* parse: the calls that derive a context (SpecCall has the others)
WithRule ==
    \E c \in 1..Len(ctxs), rule \in {ALLOW, DENY},
       arg \in GoodRuleArgs \cup (EmptyRuleArgs \ {NoArg}) :
        /\ Len(ctxs) < MaxCtxs
        /\ \E w \in {withRuleCatchError(ctxs, pols, c, rule, arg.values)} :
               /\ w.err = ""
               /\ ctxs' = w.cs
               /\ pols' = w.heap
               /\ hist' = IF Len(w.cs) > Len(ctxs)
                          THEN Append(hist, By("WithRule", rule, arg.digests))
                          ELSE hist
               /\ plast' = PLast("WithRule", c, rule, arg, <<>>, w.ctx, w.err, FALSE, Nil)
        /\ UNCHANGED <<pin, pout, r, fs, last, bg, cc>>

\* context.WithCancel(parentCtx): a child that stores no policy of its own
WithCancel ==
    \E c \in 1..Len(ctxs) :
        /\ Len(ctxs) < MaxCtxs
        /\ ctxs' = Append(ctxs, Context(c, FALSE, 0))
        /\ hist' = Append(hist, By("WithCancel", ALLOW, {}))
        /\ plast' = PLast("WithCancel", c, ALLOW, NoArg, <<>>, Len(ctxs) + 1, "", FALSE, Nil)
        /\ UNCHANGED <<pols, pin, pout, r, fs, last, bg, cc>>

NextPolicy ==
    \/ WithPolicy
    \/ WithRule
    \/ WithCancel

SpecPolicy == InitPolicy /\ [][NextPolicy]_vars

-----------------------------------------------------------------------------
(* SpecCall: one policy call on a scope.  The scope is context.Background() *)
(* or a context holding a policy that the derivations can build: any        *)
(* default verdict, any allow and deny sets that share no digest.            *)

ScopePolicies ==
    {[defaultVerdict |-> v, allow |-> al, deny |-> dn] :
        v \in Verdicts, al \in SUBSET Digests, dn \in SUBSET Digests}

InitCall ==
    /\ \/ /\ ctxs = <<Background>>
          /\ pols = <<>>
          /\ hist = <<By("Background", ALLOW, {})>>
       \/ \E p \in ScopePolicies :
             /\ p.allow \cap p.deny = {}
             /\ ctxs = <<Background, Context(1, TRUE, 1)>>
             /\ pols = <<p>>
             /\ hist = <<By("Background", ALLOW, {}), By("WithRule", ALLOW, {})>>
    /\ plast = NoCall
    /\ ParseIdle
    /\ HandleIdle

\* CheckPolicy(ctx, digest, hex.EncodeToString(digest[:]))
CallCheckPolicy ==
    \E c \in 1..Len(ctxs), digest \in Digests :
        /\ plast.op = "none"
        /\ plast' = PLast("CheckPolicy", c, ALLOW, NoArg, digest, c, "", FALSE,
                          CheckPolicy(ctxs, pols, c, digest, EncodeToString(digest)))
        /\ UNCHANGED <<ctxs, pols, hist, pin, pout, r, fs, last, bg, cc>>

\* WithRuleCatchError(ctx, rule, values...)
CallWithRuleCatchError ==
    \E c \in 1..Len(ctxs), rule \in Verdicts, arg \in RuleArgs :
        /\ plast.op = "none"
        /\ \E w \in {withRuleCatchError(ctxs, pols, c, rule, arg.values)} :
               /\ ctxs' = w.cs
               /\ pols' = w.heap
               /\ hist' = IF Len(w.cs) > Len(ctxs)
                          THEN Append(hist, By("WithRule", rule, arg.digests))
                          ELSE hist
               /\ plast' = PLast("WithRuleCatchError", c, rule, arg, <<>>, w.ctx, w.err, FALSE, Nil)
        /\ UNCHANGED <<pin, pout, r, fs, last, bg, cc>>

\* WithRule(ctx, rule, values...): WithRuleCatchError, and a panic on its error
CallWithRule ==
    \E c \in 1..Len(ctxs), rule \in Verdicts, arg \in RuleArgs :
        /\ plast.op = "none"
        /\ \E w \in {withRuleCatchError(ctxs, pols, c, rule, arg.values)} :
               /\ ctxs' = w.cs
               /\ pols' = w.heap
               /\ hist' = IF Len(w.cs) > Len(ctxs)
                          THEN Append(hist, By("WithRule", rule, arg.digests))
                          ELSE hist
               /\ plast' = PLast("WithRule", c, rule, arg, <<>>,
                                 IF w.err # "" THEN 0 ELSE w.ctx, w.err, w.err # "", Nil)
        /\ UNCHANGED <<pin, pout, r, fs, last, bg, cc>>

NextCall ==
    \/ CallCheckPolicy
    \/ CallWithRuleCatchError
    \/ CallWithRule

SpecCall == InitCall /\ [][NextCall]_vars

-----------------------------------------------------------------------------
(* Error values of the handle operations, and isPermissionErr *)

\* syscall.Errno: unix.EACCES, unix.EPERM, unix.ENOENT, ...
Errno(code) == Error("Errno", code, <<>>, <<>>)

\* os.ErrPermission
ErrPermission == ErrorNew("permission denied")

\* &os.PathError{Err: err}
PathError(err) == Error("PathError", "", <<>>, <<err>>)

\* &exec.Error{Err: err}
ExecError(err) == Error("ExecError", "", <<>>, <<err>>)

\* &exec.ExitError{}: the process ran and exited with a non-zero status
ExitError == Error("ExitError", "exit status 1", <<>>, <<>>)

\* fmt.Errorf that wraps its first error only and prints the second with %v
ErrorfFirstOnly(code, errs) == Error("wrapErrors", code, <<>>, <<errs[1]>>)

\* fmt.Errorf with one or two %w verbs
Errorf(code, errs) == Error("wrapErrors", code, <<>>, errs)

ERR_PAYLOAD_IS_EMPTY == ErrorNew("payload is empty")

ERR_NOT_AN_INMEMORY_FD == ErrorNew("not an in-memory file descriptor")

\* err and every error reachable from it through Unwrap
RECURSIVE ErrorChain(_)
ErrorChain(err) ==
    {err} \cup UNION {ErrorChain(err.wraps[i]) : i \in 1..Len(err.wraps)}

\* errors.Is(err, target): an error of the chain equals target, or its Is
\* method accepts it (Errno.Is: EACCES and EPERM are os.ErrPermission)
ErrorsIs(err, target) ==
    \E e \in ErrorChain(err) :
        \/ e = target
        \/ /\ e.kind = "Errno"
           /\ target = ErrPermission
           /\ e.code \in {"EACCES", "EPERM"}

\* errors.As(err, &target) for a target of the given type: the first error of
\* the chain, depth first, that has the type; Nil when there is none
RECURSIVE ErrorsAs(_, _)
ErrorsAs(err, kind) ==
    IF err.kind = kind THEN err
    ELSE IF Len(err.wraps) = 0 THEN Nil
    ELSE IF ErrorsAs(err.wraps[1], kind) # Nil THEN ErrorsAs(err.wraps[1], kind)
    ELSE IF Len(err.wraps) > 1 THEN ErrorsAs(err.wraps[2], kind)
    ELSE Nil

\* The three tests isPermissionErr makes on the error inside a *os.PathError
\* or a *exec.Error
IsPermissionClass(err) ==
    \/ ErrorsIs(err, ErrPermission)
    \/ ErrorsIs(err, Errno("EACCES"))
    \/ ErrorsIs(err, Errno("EPERM"))

\* isPermissionErr that takes every *os.PathError and every *exec.Error for a
\* permission error, whatever it wraps
isPermissionErrAnyPathError(runErr) ==
    \/ ErrorsIs(runErr, ErrPermission)
    \/ ErrorsAs(runErr, "PathError") # Nil
    \/ ErrorsAs(runErr, "ExecError") # Nil

\* isPermissionErr that does not look inside *os.PathError and *exec.Error
isPermissionErrShallow(runErr) ==
    runErr \in {ErrPermission, Errno("EACCES"), Errno("EPERM")}

isPermissionErr(runErr) ==
    IF ErrorsIs(runErr, ErrPermission) THEN TRUE
    ELSE IF ErrorsAs(runErr, "PathError") # Nil
    THEN IsPermissionClass(ErrorsAs(runErr, "PathError").wraps[1])
    ELSE IF ErrorsAs(runErr, "ExecError") # Nil
    THEN IsPermissionClass(ErrorsAs(runErr, "ExecError").wraps[1])
    ELSE ErrorsIs(runErr, Errno("EACCES")) \/ ErrorsIs(runErr, Errno("EPERM"))

-----------------------------------------------------------------------------
(* The handle (runnable.go; efrun's runnable).  A handle is                  *)
(* [pkg, payload, file, closer, name, sha256hex, sha256, deleteOnClose]:     *)
(* pkg is the package of its type ("none": no handle), file is "nil", or    *)
(* the state of the *os.File it points to ("open", "closed"), closer is      *)
(* whether r.closer is set, name is [dir, base].  fs holds the temporary     *)
(* files that exist, each [name, content, mode].  The system calls that fail *)
(* during one operation are its env, a set of their names.                   *)

Path(dir, base) == [dir |-> dir, base |-> base]

\* ""
NoName == Path("", <<>>)

\* fmt.Sprintf("/proc/self/fd/%d", fd), for the descriptor memfd_create returns
MemfdName == Path("/proc/self/fd/", <<51>>)

\* What os.CreateTemp("", hexDigest+"-*") names its file
TempName(hexDigest) == Path("/tmp/", hexDigest \o <<45, 49>>)

NoHandle ==
    [pkg |-> "none", payload |-> <<>>, file |-> "nil", closer |-> FALSE, name |-> NoName,
     sha256hex |-> <<>>, sha256 |-> ZeroDigest, deleteOnClose |-> FALSE]

File(name, content, mode) == [name |-> name, content |-> content, mode |-> mode]

\* The result of an operation on the handle: the handle and the files after
\* it, and the error it returns
Done(rr, files, err) == [r |-> rr, fs |-> files, err |-> err]

\* IsMemfd that reports every handle that owns no file to delete
IsMemfdUnlessOwned(rr) == ~rr.deleteOnClose

\* emrun's IsMemfd tests the name's prefix; efrun's returns false
IsMemfd(rr) ==
    IF rr.pkg = "efrun" THEN FALSE ELSE rr.name.dir = "/proc/self/fd/"

\* ensureDigest that computes the digest at every call
ensureDigestFresh(rr) ==
    [r      |-> [rr EXCEPT !.sha256 = Sum256(rr.payload), !.sha256hex = sha256hex(rr.payload)],
     digest |-> Sum256(rr.payload),
     hex    |-> sha256hex(rr.payload)]

\* ensureDigest: [r, digest, hex]
ensureDigest(rr) ==
    IF rr.sha256hex # <<>> THEN [r |-> rr, digest |-> rr.sha256, hex |-> rr.sha256hex]
    ELSE [r      |-> [rr EXCEPT !.sha256 = Sum256(rr.payload),
                                !.sha256hex = EncodeToString(Sum256(rr.payload))],
          digest |-> Sum256(rr.payload),
          hex    |-> EncodeToString(Sum256(rr.payload))]

\* os.Remove(name): it fails when the system call fails and when no such file
\* exists
Remove(files, name, env) ==
    IF "remove" \in env THEN [fs |-> files, err |-> PathError(Errno("EBUSY"))]
    ELSE IF \A f \in files : f.name # name
    THEN [fs |-> files, err |-> PathError(Errno("ENOENT"))]
    ELSE [fs |-> {f \in files : f.name # name}, err |-> Nil]

\* The second half of Close that clears deleteOnClose whether or not the
\* removal succeeded
removeOnCloseClearsFlag(rr, files, env, fileCloseErr) ==
    LET removed(rm) ==
            Done([rr EXCEPT !.deleteOnClose = FALSE], rm.fs,
                 IF rm.err = Nil THEN fileCloseErr
                 ELSE IF fileCloseErr # Nil
                 THEN Errorf("close error; remove error", <<fileCloseErr, rm.err>>)
                 ELSE rm.err)
    IN  IF rr.deleteOnClose /\ rr.name # NoName
        THEN removed(Remove(files, rr.name, env))
        ELSE Done(rr, files, fileCloseErr)

\* The removal of Close that returns the remove error alone
removeOnCloseMasksClose(rr, files, env, fileCloseErr) ==
    LET removed(rm) ==
            IF rm.err # Nil THEN Done(rr, files, rm.err)
            ELSE Done([rr EXCEPT !.deleteOnClose = FALSE], rm.fs, fileCloseErr)
    IN  IF rr.deleteOnClose /\ rr.name # NoName
        THEN removed(Remove(files, rr.name, env))
        ELSE Done(rr, files, fileCloseErr)

\* The second half of Close, common to both packages, on the handle rr left
\* by the first half
removeOnClose(rr, files, env, fileCloseErr) ==
    LET removed(rm) ==
            IF rm.err # Nil
            THEN Done(rr, files,
                      IF fileCloseErr # Nil
                      THEN Errorf("close error; remove error", <<fileCloseErr, rm.err>>)
                      ELSE rm.err)
            ELSE Done([rr EXCEPT !.deleteOnClose = FALSE], rm.fs, fileCloseErr)
    IN  IF rr.deleteOnClose /\ rr.name # NoName
        THEN removed(Remove(files, rr.name, env))
        ELSE Done(rr, files, fileCloseErr)

\* (*os.File).Close
FileClose(env) == IF "close" \in env THEN PathError(Errno("EIO")) ELSE Nil

\* Close that closes the file and removes nothing
CloseKeepsFile(rr, files, env) ==
    IF rr.file # "nil" /\ rr.closer
    THEN Done([rr EXCEPT !.file = "closed", !.closer = FALSE], files, FileClose(env))
    ELSE Done(rr, files, Nil)

\* (r *runnable).Close() of emrun
Close(rr, files, env) ==
    IF rr.file # "nil" /\ rr.closer
    THEN removeOnClose([rr EXCEPT !.file = "closed", !.closer = FALSE], files, env, FileClose(env))
    ELSE removeOnClose(rr, files, env, Nil)

\* (r *runnable).Close() of efrun
efrunClose(rr, files, env) ==
    IF rr.file # "nil"
    THEN removeOnClose([rr EXCEPT !.file = "nil"], files, env, FileClose(env))
    ELSE removeOnClose(rr, files, env, Nil)

\* switchToTemporaryFile from os.CreateTemp on, for the handle rr that Close
\* and ensureDigest have left
writeTemporaryFile(rr, files, env) ==
    LET failed(c, one, both, cause) ==
            Done(c.r, c.fs,
                 IF c.err # Nil THEN Errorf(both, <<cause, c.err>>) ELSE Errorf(one, <<cause>>))
        created(name, r2, r3) ==
            IF "write" \in env
            THEN failed(Close(r2, files \cup {File(name, <<>>, "0600")}, env),
                        "unable to write to temporary file",
                        "unable to write to temporary file; unable to close temporary file",
                        PathError(Errno("ENOSPC")))
            ELSE IF "chmod" \in env
            THEN failed(Close(r3, files \cup {File(name, rr.payload, "0600")}, env),
                        "chmod +x",
                        "unable to chmod temporary file; unable to close temporary file",
                        PathError(Errno("EPERM")))
            ELSE Done(r3, files \cup {File(name, rr.payload, "0700")}, Nil)
    IN  IF "create" \in env THEN Done(rr, files, PathError(Errno("ENOSPC")))
        ELSE created(TempName(rr.sha256hex),
                     [rr EXCEPT !.file = "open", !.closer = TRUE,
                                !.name = TempName(rr.sha256hex), !.deleteOnClose = TRUE],
                     [rr EXCEPT !.file = "closed", !.closer = FALSE,
                                !.name = TempName(rr.sha256hex), !.deleteOnClose = TRUE])

\* switchToTemporaryFile without its test of IsMemfd
switchToTemporaryFileAgain(rr, files, env) ==
    IF Len(rr.payload) = 0 THEN Done(rr, files, ERR_PAYLOAD_IS_EMPTY)
    ELSE LET closed(c) == writeTemporaryFile(ensureDigest(c.r).r, c.fs, env)
         IN  closed(Close(rr, files, env))

\* (r *runnable).switchToTemporaryFile()
switchToTemporaryFile(rr, files, env) ==
    IF ~IsMemfd(rr) THEN Done(rr, files, ERR_NOT_AN_INMEMORY_FD)
    ELSE IF Len(rr.payload) = 0 THEN Done(rr, files, ERR_PAYLOAD_IS_EMPTY)
    ELSE LET closed(c) == writeTemporaryFile(ensureDigest(c.r).r, c.fs, env)
         IN  closed(Close(rr, files, env))

\* (r *runnable).Name(): the name is never empty while the handle has a file
Name(rr) == rr.name

\* os.ErrInvalid and os.ErrClosed
ErrInvalid == ErrorNew("invalid argument")

ErrClosed == ErrorNew("file already closed")

\* What the open file of the handle holds: the memfd what Open wrote to it,
\* the file efrun reopened what is on disk under its name
Contents(rr, files) ==
    IF IsMemfd(rr) THEN rr.payload
    ELSE IF \E f \in files : f.name = rr.name
    THEN (CHOOSE f \in files : f.name = rr.name).content
    ELSE <<>>

\* r.Seek(0, io.SeekStart) and then io.ReadAll(r), of either package:
\* [data, err].  Read and Seek return os.ErrInvalid when r.file is nil and
\* what the *os.File returns otherwise, which for a closed file is a
\* PathError of os.ErrClosed
ReadAll(rr, files) ==
    IF rr.file = "nil" THEN [data |-> <<>>, err |-> ErrInvalid]
    ELSE IF rr.file = "closed" THEN [data |-> <<>>, err |-> PathError(ErrClosed)]
    ELSE [data |-> Contents(rr, files), err |-> Nil]

-----------------------------------------------------------------------------
(* Commands and the process invoker (executil.go).  A command is an         *)
(* exec.Cmd: the object it is (obj), Path, Args, Env, Dir, Stdin, Stdout,    *)
(* Stderr, ExtraFiles, SysProcAttr and WaitDelay.  A stream is "nil" or a    *)
(* reader or writer of the caller ("r", "w"); a slice that may be nil is     *)
(* [nil, elems].  What the invoker (port.CommandRunner) does with one call   *)
(* is an outcome [err, out]: the error it returns and what the process       *)
(* wrote.                                                                    *)

\* A nil slice, and a slice of elems
NilSlice == [nil |-> TRUE, elems |-> <<>>]

Slice(elems) == [nil |-> FALSE, elems |-> elems]

\* slices.Clone(s): a copy, nil when s is nil
slicesClone(s) == IF s.nil THEN NilSlice ELSE Slice(s.elems)

\* The exec.Cmd the caller allocates: every other field has its zero value
Cmd(path, args, stdout, stderr) ==
    [obj |-> "caller", path |-> path, args |-> args, env |-> NilSlice, dir |-> <<>>,
     stdin |-> "nil", stdout |-> stdout, stderr |-> stderr, extraFiles |-> NilSlice,
     sysProcAttr |-> "nil", waitDelay |-> 0]

\* exec.CommandContext(ctx, name, args...) with the fields the caller then
\* sets on it
CommandContext(name, setup) ==
    [Cmd(name, <<name>> \o setup.args, setup.stdout, setup.stderr)
        EXCEPT !.env = setup.env, !.dir = setup.dir, !.stdin = setup.stdin,
               !.extraFiles = setup.extraFiles, !.sysProcAttr = setup.sysProcAttr,
               !.waitDelay = setup.waitDelay]

\* The n-th call of the invoker returns err; its process writes the digit n
Outcome(err, n) == [err |-> err, out |-> <<48 + n>>]

\* newCommandCapture that tests the stdout of the command only
newCommandCaptureStdoutOnly(cmd, combined) ==
    IF ~combined THEN Nil
    ELSE IF cmd.stdout # "nil"
    THEN ErrorNew("combined output requested with configured stdout or stderr")
    ELSE Nil

\* newCommandCapture(cmd, combined): the error it returns
newCommandCapture(cmd, combined) ==
    IF ~combined THEN Nil
    ELSE IF cmd.stdout # "nil" \/ cmd.stderr # "nil"
    THEN ErrorNew("combined output requested with configured stdout or stderr")
    ELSE Nil

\* RunCommand(runner, cmd, combinedOutput): [out, err, calls]; calls are the
\* commands handed to runner.Run, out is capture.Finish()
RunCommand(cmd, combined, outcome) ==
    IF newCommandCapture(cmd, combined) # Nil
    THEN [out |-> <<>>, err |-> newCommandCapture(cmd, combined), calls |-> <<>>]
    ELSE [out   |-> IF combined THEN outcome.out ELSE <<>>,
          err   |-> outcome.err,
          calls |-> <<cmd>>]

\* StartCommand(runner, cmd, combinedOutput): [capture, err, calls]; capture
\* is "nil", or whether the capture returned is enabled
StartCommand(cmd, combined, outcome) ==
    IF newCommandCapture(cmd, combined) # Nil
    THEN [capture |-> "nil", err |-> newCommandCapture(cmd, combined), calls |-> <<>>]
    ELSE IF outcome.err # Nil
    THEN [capture |-> "nil", err |-> outcome.err, calls |-> <<cmd>>]
    ELSE [capture |-> IF combined THEN "enabled" ELSE "disabled",
          err     |-> Nil,
          calls   |-> <<cmd>>]

\* cloneCommandForFallback that keeps the path of the command it clones
cloneCommandKeepsPath(cmd, path) == cmd

\* cloneCommandForFallback that copies the target, the arguments and the
\* output streams only
cloneCommandStreamsOnly(cmd, path) ==
    [Cmd(path, IF Len(cmd.args) = 0 THEN <<path>> ELSE [cmd.args EXCEPT ![1] = path],
         cmd.stdout, cmd.stderr)
        EXCEPT !.obj = "fallback"]

\* cloneCommandForFallback(ctx, cmd, path): a new exec.Cmd, bound to the
\* context of the execute
cloneCommandForFallback(cmd, path) ==
    [obj         |-> "fallback",
     path        |-> path,
     args        |-> IF Len(cmd.args) = 0 THEN <<path>> ELSE [cmd.args EXCEPT ![1] = path],
     env         |-> slicesClone(cmd.env),
     dir         |-> cmd.dir,
     stdin       |-> cmd.stdin,
     stdout      |-> cmd.stdout,
     stderr      |-> cmd.stderr,
     extraFiles  |-> IF ~cmd.extraFiles.nil THEN slicesClone(cmd.extraFiles) ELSE NilSlice,
     sysProcAttr |-> cmd.sysProcAttr,
     waitDelay   |-> cmd.waitDelay]

\* What an execute returns and leaves: the handle and the files, the output
\* and the error, the calls of the invoker, the digest and the hex form given
\* to enforcePolicy, whether it panicked, and for StartBackground the command
\* started (NoCmd for nil) and the capture
NoCmd == Cmd(NoName, <<>>, "nil", "nil")

Exec(rr, files, out, err, calls, d) ==
    [r |-> rr, fs |-> files, out |-> out, err |-> err, calls |-> calls,
     digest |-> d.digest, hex |-> d.hex, panicked |-> FALSE,
     started |-> NoCmd, capture |-> "nil"]

\* (r *runnable).Run(ctx, cmd, combinedOutput) of emrun on context c; o1 and
\* o2 are the outcomes of the first and the second call of the invoker
Run(rr, files, c, cmd, combined, o1, o2, env) ==
    LET retried(d, first, sw, second) ==
            Exec(sw.r, sw.fs, second.out, second.err, first.calls \o second.calls, d)
        switched(d, first, sw) ==
            IF sw.err # Nil
            THEN Exec(sw.r, sw.fs, first.out,
                      Errorf("memfd execution failed; fallback to tempfile failed",
                             <<first.err, sw.err>>),
                      first.calls, d)
            ELSE retried(d, first, sw,
                         RunCommand(cloneCommandForFallback(cmd, Name(sw.r)), combined, o2))
        ran(d, first) ==
            IF first.err = Nil THEN Exec(d.r, files, first.out, Nil, first.calls, d)
            ELSE IF ~IsMemfd(d.r) \/ ~isPermissionErr(first.err)
            THEN Exec(d.r, files, first.out, first.err, first.calls, d)
            ELSE switched(d, first, switchToTemporaryFile(d.r, files, env))
        enforced(d, err) ==
            IF err # Nil THEN Exec(d.r, files, <<>>, err, <<>>, d)
            ELSE ran(d, RunCommand(cmd, combined, o1))
        digested(d) == enforced(d, enforcePolicy(ctxs, pols, c, d.digest, d.hex))
    IN  digested(ensureDigest(rr))

\* (r *runnable).StartBackground(ctx, cmd, combinedOutput) of emrun.  When the
\* second start fails, Restore is called on the nil capture StartCommand
\* returned: a nil interface, and the call panics.
StartBackground(rr, files, c, cmd, combined, o1, o2, env) ==
    LET restarted(d, first, sw, fallback, second) ==
            IF second.err # Nil
            THEN [Exec(sw.r, sw.fs, <<>>, Nil, first.calls \o second.calls, d)
                     EXCEPT !.panicked = TRUE]
            ELSE [Exec(sw.r, sw.fs, <<>>, Nil, first.calls \o second.calls, d)
                     EXCEPT !.started = fallback, !.capture = second.capture]
        cloned(d, first, sw, fallback) ==
            restarted(d, first, sw, fallback, StartCommand(fallback, combined, o2))
        switched(d, first, sw) ==
            IF sw.err # Nil
            THEN Exec(sw.r, sw.fs, <<>>,
                      Errorf("memfd execution failed; fallback to tempfile failed",
                             <<first.err, sw.err>>),
                      first.calls, d)
            ELSE cloned(d, first, sw, cloneCommandForFallback(cmd, Name(sw.r)))
        started(d, first) ==
            IF first.err = Nil
            THEN [Exec(d.r, files, <<>>, Nil, first.calls, d)
                     EXCEPT !.started = cmd, !.capture = first.capture]
            ELSE IF ~IsMemfd(d.r) \/ ~isPermissionErr(first.err)
            THEN Exec(d.r, files, <<>>, first.err, first.calls, d)
            ELSE switched(d, first, switchToTemporaryFile(d.r, files, env))
        enforced(d, err) ==
            IF err # Nil THEN Exec(d.r, files, <<>>, err, <<>>, d)
            ELSE started(d, StartCommand(cmd, combined, o1))
        digested(d) == enforced(d, enforcePolicy(ctxs, pols, c, d.digest, d.hex))
    IN  digested(ensureDigest(rr))

\* (r *runnable).Run of efrun: r.enforce(ctx), then emrun.RunCommand
efrunRun(rr, files, c, cmd, combined, o1) ==
    LET ran(d, first) == Exec(d.r, files, first.out, first.err, first.calls, d)
        enforced(d, err) ==
            IF err # Nil THEN Exec(d.r, files, <<>>, err, <<>>, d)
            ELSE ran(d, RunCommand(cmd, combined, o1))
        digested(d) == enforced(d, CheckPolicy(ctxs, pols, c, d.digest, d.hex))
    IN  digested(ensureDigest(rr))

\* (r *runnable).StartBackground of efrun
efrunStartBackground(rr, files, c, cmd, combined, o1) ==
    LET started(d, first) ==
            IF first.err # Nil THEN Exec(d.r, files, <<>>, first.err, first.calls, d)
            ELSE [Exec(d.r, files, <<>>, Nil, first.calls, d)
                     EXCEPT !.started = cmd, !.capture = first.capture]
        enforced(d, err) ==
            IF err # Nil THEN Exec(d.r, files, <<>>, err, <<>>, d)
            ELSE started(d, StartCommand(cmd, combined, o1))
        digested(d) == enforced(d, CheckPolicy(ctxs, pols, c, d.digest, d.hex))
    IN  digested(ensureDigest(rr))

-----------------------------------------------------------------------------
(* Opening a handle *)

\* Open(executablePayload) of emrun: [r, fs, err], r = NoHandle when it
\* returns no handle
Open(payload, files, env) ==
    LET switched(sw) == IF sw.err # Nil THEN Done(NoHandle, sw.fs, sw.err) ELSE sw
        unwritten(c) ==
            Done(NoHandle, c.fs,
                 IF c.err # Nil
                 THEN Errorf("unable to write payload, unable to close memfd",
                             <<PathError(Errno("ENOSPC")), c.err>>)
                 ELSE Errorf("unable to write payload", <<PathError(Errno("ENOSPC"))>>))
        made(r0, r1) ==
            IF "memfd" \in env THEN switched(switchToTemporaryFile(r0, files, env))
            ELSE IF "write" \in env THEN unwritten(Close(r1, files, env))
            ELSE Done(r1, files, Nil)
    IN  made([NoHandle EXCEPT !.pkg = "emrun", !.payload = payload,
                              !.sha256hex = sha256hex(payload)],
             [NoHandle EXCEPT !.pkg = "emrun", !.payload = payload,
                              !.sha256hex = sha256hex(payload),
                              !.name = MemfdName, !.file = "open", !.closer = TRUE,
                              !.deleteOnClose = FALSE])

\* The deferred cleanup of writeToTemporaryFile: tmpf.Close() and
\* os.Remove(name), whatever they return
cleanup(rr, files, name, env, err) == Done(rr, Remove(files, name, env).fs, err)

\* (r *runnable).writeToTemporaryFile() of efrun
writeToTemporaryFile(rr, files, env) ==
    LET created(name) ==
            IF "write" \in env
            THEN cleanup(rr, files \cup {File(name, <<>>, "0600")}, name, env,
                         Errorf("unable to write to temporary file",
                                <<PathError(Errno("ENOSPC"))>>))
            ELSE IF "close" \in env
            THEN cleanup(rr, files \cup {File(name, rr.payload, "0600")}, name, env,
                         Errorf("close temporary file", <<PathError(Errno("EIO"))>>))
            ELSE IF "chmod" \in env
            THEN cleanup(rr, files \cup {File(name, rr.payload, "0600")}, name, env,
                         Errorf("chmod +x", <<PathError(Errno("EPERM"))>>))
            ELSE IF "reopen" \in env
            THEN cleanup(rr, files \cup {File(name, rr.payload, "0700")}, name, env,
                         Errorf("reopen temporary file", <<PathError(Errno("EMFILE"))>>))
            ELSE Done([rr EXCEPT !.file = "open", !.name = name],
                      files \cup {File(name, rr.payload, "0700")}, Nil)
    IN  IF "create" \in env THEN Done(rr, files, PathError(Errno("ENOSPC")))
        ELSE created(TempName(rr.sha256hex))

\* Open(executablePayload) of efrun
efrunOpen(payload, files, env) ==
    LET written(w) == IF w.err # Nil THEN Done(NoHandle, w.fs, w.err) ELSE w
    IN  IF Len(payload) = 0 THEN Done(NoHandle, files, ERR_PAYLOAD_IS_EMPTY)
        ELSE written(writeToTemporaryFile(
                 [NoHandle EXCEPT !.pkg = "efrun", !.payload = payload,
                                  !.sha256hex = EncodeToString(Sum256(payload)),
                                  !.sha256 = Sum256(payload),
                                  !.deleteOnClose = TRUE],
                 files, env))

-----------------------------------------------------------------------------
(* Spec: one handle, opened by emrun or by efrun, executed and closed any    *)
(* number of times, under the scopes of ScopeCtxs.                           *)

\* The payloads opened: none, and "#!"
OpenPayloads == {<<>>, <<35, 33>>}

\* The scopes the handle is executed under, as WithPolicy and WithRule build
\* them:
\*   1  context.Background()
\*   2  WithPolicy(1, DENY)
\*   3  WithRule(2, ALLOW, hex of SHA-256("#!"))
\*   4  WithRule(1, DENY, SHA-256("#!"))
ScopeCtxs == <<Background, Context(1, TRUE, 1), Context(2, TRUE, 2), Context(1, TRUE, 3)>>

\* The policy objects the scopes hold
ScopeHeap ==
    <<[defaultVerdict |-> DENY, allow |-> {}, deny |-> {}],
      [defaultVerdict |-> DENY, allow |-> {DA}, deny |-> {}],
      [defaultVerdict |-> ALLOW, allow |-> {}, deny |-> {DA}]>>

\* What the first call of the invoker may return
FirstErrs ==
    {Nil, PathError(Errno("EACCES")), ExecError(ErrPermission), Errno("EPERM"),
     PathError(Errno("ENOENT")), ExitError}

\* What its second call may return
SecondErrs == {Nil, PathError(Errno("EACCES")), ExitError}

\* How the caller sets up the command it executes: the arguments after the
\* name and the fields set on the exec.Cmd.  The first is what
\* exec.CommandContext(ctx, name, "a") gives; the others set every field
Setup(args, env, dir, stdin, stdout, stderr, extraFiles, sysProcAttr, waitDelay) ==
    [args |-> args, env |-> env, dir |-> dir, stdin |-> stdin, stdout |-> stdout,
     stderr |-> stderr, extraFiles |-> extraFiles, sysProcAttr |-> sysProcAttr,
     waitDelay |-> waitDelay]

Setups ==
    {Setup(<<<<97>>>>, NilSlice, <<>>, "nil", "nil", "nil", NilSlice, "nil", 0),
     Setup(<<<<97>>, <<98>>>>, Slice(<<"A=B">>), <<47>>, "r", "w", "w", Slice(<<>>),
           "Setsid", 123),
     Setup(<<>>, Slice(<<>>), <<>>, "r", "nil", "w", Slice(<<3>>), "Setpgid", 0)}

\* The system calls that may fail during switchToTemporaryFile
SwitchFaults ==
    {{}, {"create"}, {"write"}, {"write", "remove"}, {"write", "close", "remove"},
     {"chmod"}, {"chmod", "remove"}}

CloseFaults == {{}, {"close"}, {"remove"}, {"close", "remove"}}

OpenFaults == {{}, {"memfd"}, {"write"}, {"write", "close"}}

efrunOpenFaults ==
    {{}, {"create"}, {"write"}, {"close"}, {"chmod"}, {"chmod", "remove"}, {"reopen"}}

\* What the environment does during one execute: the error of the invoker's
\* first call and, when that error sends the handle to its temporary-file
\* fallback, either the system calls that fail during the switch or the
\* error of the invoker's second call
Scenario(e1, e2, env) == [e1 |-> e1, e2 |-> e2, env |-> env]

Scenarios ==
    {Scenario(e1, Nil, {}) : e1 \in FirstErrs}
    \cup {Scenario(e1, e2, {}) : e1 \in FirstErrs, e2 \in SecondErrs \ {Nil}}
    \cup {Scenario(e1, Nil, env) : e1 \in FirstErrs, env \in SwitchFaults \ {{}}}

\* The last operation: the package and the payload of the handle it was
\* called on (for Open, the package called and the payload given), the handle
\* and the files before it (pre, prefs), its arguments, what the environment
\* did (first and second: the errors of the invoker's calls; env:
\* the system calls that failed), and what the operation returned
Last(op, pre, c, cmd, combined, sc, x) ==
    [op |-> op, pkg |-> pre.pkg, payload |-> pre.payload,
     pre |-> pre, prefs |-> fs, ctx |-> c, cmd |-> cmd, combined |-> combined,
     first |-> sc.e1, second |-> sc.e2, env |-> sc.env,
     out |-> x.out, err |-> x.err, calls |-> x.calls, digest |-> x.digest, hex |-> x.hex,
     panicked |-> x.panicked, started |-> x.started, capture |-> x.capture]

\* What an operation that executes nothing returns
NoExec(rr, files, err) ==
    Exec(rr, files, <<>>, err, <<>>, [digest |-> ZeroDigest, hex |-> <<>>])

NoOp == Last("none", NoHandle, 0, NoCmd, FALSE, Scenario(Nil, Nil, {}), NoExec(NoHandle, {}, Nil))

Init ==
    /\ r = NoHandle
    /\ fs = {}
    /\ last = NoOp
    /\ ctxs = ScopeCtxs
    /\ pols = ScopeHeap
    /\ hist = <<>>
    /\ plast = [op |-> "none"]
    /\ ParseIdle
    /\ bg = [job |-> "none"]
    /\ cc = [op |-> "none"]

\* emrun.Open(payload)
DoOpen ==
    \E payload \in OpenPayloads, env \in OpenFaults :
        /\ r.pkg = "none"
        /\ \E x \in {Open(payload, fs, env)} :
              /\ r' = x.r
              /\ fs' = x.fs
              /\ last' = [Last("Open", r, 0, NoCmd, FALSE, Scenario(Nil, Nil, env),
                               NoExec(x.r, x.fs, x.err))
                             EXCEPT !.pkg = "emrun", !.payload = payload]
        /\ UNCHANGED <<ctxs, pols, hist, plast, pin, pout, bg, cc>>

\* efrun.Open(payload)
DoEfrunOpen ==
    \E payload \in OpenPayloads, env \in efrunOpenFaults :
        /\ r.pkg = "none"
        /\ \E x \in {efrunOpen(payload, fs, env)} :
              /\ r' = x.r
              /\ fs' = x.fs
              /\ last' = [Last("Open", r, 0, NoCmd, FALSE, Scenario(Nil, Nil, env),
                               NoExec(x.r, x.fs, x.err))
                             EXCEPT !.pkg = "efrun", !.payload = payload]
        /\ UNCHANGED <<ctxs, pols, hist, plast, pin, pout, bg, cc>>

\* Whether an execute of command cmd on context c calls the invoker
Invokes(c, cmd, combined) ==
    /\ newCommandCapture(cmd, combined) = Nil
    /\ enforcePolicy(ctxs, pols, c, ensureDigest(r).digest, ensureDigest(r).hex) = Nil

\* The scenarios that differ for this execute: the invoker's errors count
\* only when it is called, the second call and the switch only when the first
\* error sends an anonymous-memory handle to its fallback
ScenariosOf(c, cmd, combined) ==
    LET among(invoked) ==
            {sc \in Scenarios :
                /\ (sc.e1 # Nil) => invoked
                /\ (sc.e2 # Nil \/ sc.env # {}) =>
                      (invoked /\ IsMemfd(r) /\ isPermissionErr(sc.e1))}
    IN  among(Invokes(c, cmd, combined))

\* r.Run(ctx, cmd, combined), cmd set up by the caller on the name of r
DoRun ==
    \E c \in 1..Len(ctxs), setup \in Setups, combined \in BOOLEAN :
      \E sc \in ScenariosOf(c, CommandContext(Name(r), setup), combined) :
        /\ r.pkg = "emrun"
        /\ \E x \in {Run(r, fs, c, CommandContext(Name(r), setup), combined,
                         Outcome(sc.e1, 1), Outcome(sc.e2, 2), sc.env)} :
              /\ r' = x.r
              /\ fs' = x.fs
              /\ last' = Last("Run", r, c, CommandContext(Name(r), setup), combined, sc, x)
        /\ UNCHANGED <<ctxs, pols, hist, plast, pin, pout, bg, cc>>

\* r.StartBackground(ctx, cmd, combined)
DoStartBackground ==
    \E c \in 1..Len(ctxs), setup \in Setups, combined \in BOOLEAN :
      \E sc \in ScenariosOf(c, CommandContext(Name(r), setup), combined) :
        /\ r.pkg = "emrun"
        /\ \E x \in {StartBackground(r, fs, c, CommandContext(Name(r), setup), combined,
                                     Outcome(sc.e1, 1), Outcome(sc.e2, 2), sc.env)} :
              /\ r' = x.r
              /\ fs' = x.fs
              /\ last' = Last("StartBackground", r, c, CommandContext(Name(r), setup),
                              combined, sc, x)
        /\ UNCHANGED <<ctxs, pols, hist, plast, pin, pout, bg, cc>>

\* Run of an efrun handle
DoEfrunRun ==
    \E c \in 1..Len(ctxs), setup \in Setups, combined \in BOOLEAN, e1 \in FirstErrs :
        /\ r.pkg = "efrun"
        /\ e1 # Nil => Invokes(c, CommandContext(Name(r), setup), combined)
        /\ \E x \in {efrunRun(r, fs, c, CommandContext(Name(r), setup), combined,
                              Outcome(e1, 1))} :
              /\ r' = x.r
              /\ fs' = x.fs
              /\ last' = Last("Run", r, c, CommandContext(Name(r), setup), combined, Scenario(e1, Nil, {}), x)
        /\ UNCHANGED <<ctxs, pols, hist, plast, pin, pout, bg, cc>>

\* StartBackground of an efrun handle
DoEfrunStartBackground ==
    \E c \in 1..Len(ctxs), setup \in Setups, combined \in BOOLEAN, e1 \in FirstErrs :
        /\ r.pkg = "efrun"
        /\ e1 # Nil => Invokes(c, CommandContext(Name(r), setup), combined)
        /\ \E x \in {efrunStartBackground(r, fs, c, CommandContext(Name(r), setup),
                                          combined, Outcome(e1, 1))} :
              /\ r' = x.r
              /\ fs' = x.fs
              /\ last' = Last("StartBackground", r, c, CommandContext(Name(r), setup),
                              combined, Scenario(e1, Nil, {}), x)
        /\ UNCHANGED <<ctxs, pols, hist, plast, pin, pout, bg, cc>>

\* r.switchToTemporaryFile(), called on the handle directly
DoSwitchToTemporaryFile ==
    \E env \in SwitchFaults :
        /\ r.pkg = "emrun"
        /\ env # {} => (IsMemfd(r) /\ r.payload # <<>>)
        /\ \E x \in {switchToTemporaryFile(r, fs, env)} :
              /\ r' = x.r
              /\ fs' = x.fs
              /\ last' = Last("switchToTemporaryFile", r, 0, NoCmd, FALSE,
                              Scenario(Nil, Nil, env), NoExec(x.r, x.fs, x.err))
        /\ UNCHANGED <<ctxs, pols, hist, plast, pin, pout, bg, cc>>

\* r.Seek(0, io.SeekStart) and io.ReadAll(r), of either package
DoReadAll ==
    /\ r.pkg # "none"
    /\ \E x \in {ReadAll(r, fs)} :
          last' = [Last("ReadAll", r, 0, NoCmd, FALSE, Scenario(Nil, Nil, {}),
                        NoExec(r, fs, x.err))
                      EXCEPT !.out = x.data]
    /\ UNCHANGED <<r, fs, ctxs, pols, hist, plast, pin, pout, bg, cc>>

\* r.Close(), of either package
DoClose ==
    \E env \in CloseFaults :
        /\ r.pkg # "none"
        /\ \E x \in {IF r.pkg = "efrun" THEN efrunClose(r, fs, env) ELSE Close(r, fs, env)} :
              /\ r' = x.r
              /\ fs' = x.fs
              /\ last' = Last("Close", r, 0, NoCmd, FALSE, Scenario(Nil, Nil, env), NoExec(x.r, x.fs, x.err))
        /\ UNCHANGED <<ctxs, pols, hist, plast, pin, pout, bg, cc>>

Next ==
    \/ DoOpen
    \/ DoEfrunOpen
    \/ DoRun
    \/ DoStartBackground
    \/ DoEfrunRun
    \/ DoEfrunStartBackground
    \/ DoSwitchToTemporaryFile
    \/ DoReadAll
    \/ DoClose

Spec == Init /\ [][Next]_vars

-----------------------------------------------------------------------------
(* The background orchestrator (executil.go, common.go).  A Result is        *)
(* [exitCode, err, out].  A process state, an os.ProcessState, is            *)
(* [nil, code, text]: nil for no state, code what ExitCode() returns (-1     *)
(* for a process ended by a signal), text what String() prints.  The         *)
(* completion channel is [buf, closed, cap].                                 *)

Result(exitCode, err, out) == [exitCode |-> exitCode, err |-> err, out |-> out]

\* Result{}
ZeroResult == Result(0, Nil, <<>>)

\* context.Canceled, the Err() of a cancelled context
Canceled == ErrorNew("context canceled")

\* No *os.ProcessState
NoState == [nil |-> TRUE, code |-> 0, text |-> ""]

\* The state of a process that exited with a status
Exited(code, text) == [nil |-> FALSE, code |-> code, text |-> text]

\* The state of a process ended by SIGKILL
Killed == [nil |-> FALSE, code |-> -1, text |-> "signal: killed"]

\* How the process of a job ends of its own: success, exit 7
NaturalEnds == {Exited(0, "exit status 0"), Exited(7, "exit status 7")}

ProcStates == NaturalEnds \cup {Killed}

\* *exec.ExitError{ProcessState: state}
ExitErrorOf(state) == Error("ExitError", state.text, <<>>, <<>>)

\* exitErr.ProcessState
ProcessStateOf(exitErr) ==
    IF \E st \in ProcStates : st.text = exitErr.code
    THEN CHOOSE st \in ProcStates : st.text = exitErr.code
    ELSE NoState

\* exitCodeFrom that looks at the wait error only
exitCodeFromError(waitErr, state) ==
    IF waitErr = Nil THEN 0
    ELSE IF ErrorsAs(waitErr, "ExitError") # Nil
            /\ ~ProcessStateOf(ErrorsAs(waitErr, "ExitError")).nil
    THEN IF ProcessStateOf(ErrorsAs(waitErr, "ExitError")).code = -1 THEN 1
         ELSE ProcessStateOf(ErrorsAs(waitErr, "ExitError")).code
    ELSE 1

\* exitCodeFrom(waitErr, state)
exitCodeFrom(waitErr, state) ==
    IF ~state.nil THEN state.code
    ELSE IF waitErr = Nil THEN 0
    ELSE IF ErrorsAs(waitErr, "ExitError") # Nil
            /\ ~ProcessStateOf(ErrorsAs(waitErr, "ExitError")).nil
    THEN ProcessStateOf(ErrorsAs(waitErr, "ExitError")).code
    ELSE -1

\* cmd.Wait(): nil for a process that exited with status 0, an *exec.ExitError
\* for one that did not, and the error of the wait system call when that
\* fails (no state then)
cmdWait(state) ==
    IF state.nil THEN Errno("ECHILD")
    ELSE IF state.code = 0 THEN Nil
    ELSE ExitErrorOf(state)

\* What the process wrote to the capture
ProcessOutput == <<98, 103, 10>>

\* WaitCommand(cmd, capture) for a process that ended in state
WaitCommand(state, capture) ==
    Result(exitCodeFrom(cmdWait(state), state),
           cmdWait(state),
           IF capture = "enabled" THEN ProcessOutput ELSE <<>>)

\* A completion channel without a buffer: make(chan Result)
MakeChanUnbuffered == [buf |-> <<>>, closed |-> FALSE, cap |-> 0]

\* make(chan Result, 1)
MakeChan == [buf |-> <<>>, closed |-> FALSE, cap |-> 1]

\* A delivery that enqueues the Result twice
deliverTwice(ch, res) == [ch EXCEPT !.buf = @ \o <<res, res>>, !.closed = TRUE]

\* once.Do(func() { done <- res; close(done) })
deliver(ch, res) == [ch EXCEPT !.buf = @ \o <<res>>, !.closed = TRUE]

\* Whether done <- res can proceed: there is room in the buffer, or a
\* receiver is blocked on the channel
CanSend(ch, receivers) == Len(ch.buf) < ch.cap \/ receivers # {}

\* Whether a receive from the channel can proceed
CanReceive(ch) == ch.buf # <<>> \/ ch.closed

\* case res, ok := <-bg.Done of WaitWithContext: [res, ch, via]
caseDone(ch) ==
    IF ch.buf # <<>>
    THEN [res |-> Head(ch.buf), ch |-> [ch EXCEPT !.buf = Tail(@)], via |-> "done"]
    ELSE [res |-> ZeroResult, ch |-> ch, via |-> "closed"]

\* A cancellation case that takes the Result off the channel
caseCtxDraining(ch) ==
    [res |-> Result(0, Canceled, <<>>), ch |-> [ch EXCEPT !.buf = <<>>], via |-> "ctx"]

\* case <-ctx.Done() of WaitWithContext
caseCtx(ch) == [res |-> Result(0, Canceled, <<>>), ch |-> ch, via |-> "ctx"]

\* A fold in which the error of the close replaces the error of the wait
foldCloseErrorAlways(res, closeErr) ==
    IF closeErr # Nil THEN [res EXCEPT !.err = closeErr] ELSE res

\* if err := rn.Close(); err != nil && res.Error == nil { res.Error = err }
foldCloseError(res, closeErr) ==
    IF closeErr # Nil /\ res.err = Nil THEN [res EXCEPT !.err = closeErr] ELSE res

\* The monitor that stops once it has closed the handle
monitorStopsAfterClose(pc) ==
    IF pc = "wait" THEN "close" ELSE "done"

\* The monitor that releases the child scope before it delivers
monitorReleasesFirst(pc) ==
    IF pc = "wait" THEN "close"
    ELSE IF pc = "close" THEN "release"
    ELSE IF pc = "release" THEN "send"
    ELSE "done"

\* The steps of the monitoring goroutine, in order: WaitCommand, rn.Close(),
\* once.Do(deliver), closer()
monitorNext(pc) ==
    IF pc = "wait" THEN "close"
    ELSE IF pc = "close" THEN "send"
    ELSE IF pc = "send" THEN "release"
    ELSE "done"

-----------------------------------------------------------------------------
(* SpecBg: one handle, opened by emrun or by efrun, started in the           *)
(* background once; its process, its monitor, its caller and its waiters     *)
(* interleave.                                                               *)

\* The number of callers that wait on the job
NWaiters == 2

Waiters == 1..NWaiters

\* A waiter: idle, blocked in the select of WaitWithContext, or returned.
\* scope is the context it waits with: "job" for Wait() (bg.Context), "own"
\* for WaitWithContext on a context of its own.  via is the case of the
\* select it returned by: "done" (a Result received), "closed" (the channel
\* was closed and empty), "ctx" (its context was done)
IdleWaiter == [st |-> "idle", scope |-> "none", res |-> ZeroResult, via |-> "none"]

\* The job.  job: "none", "panicked" (StartBackground panicked), "failed"
\* (it returned an error), "running" (it returned a Background), or
\* "exitCodeFrom" (exitCodeFrom was called on its own).  ctx,
\* combined, first, second, env, cleanup, calls, pre and prefs describe a
\* start that failed: its arguments, what the environment did, the calls of
\* the invoker, the handle and the files before.  child: whether the child
\* scope is cancelled; released: whether the monitor has called its closer;
\* cancelAt: where the job was when the caller or the parent cancelled ("never",
\* "running": before the process ended, "ended", "delivered").  proc:
\* "none", "running", "ended"; state: how it ended.  mon: the step the
\* monitor is at.  res: the Result it built; closeErr: what rn.Close()
\* returned to it; ch: the completion channel;
\* sent: the Results ever put on it
NewJob ==
    [job |-> "none", err |-> Nil, ctx |-> 0, combined |-> FALSE, calls |-> <<>>,
     first |-> Nil, second |-> Nil, env |-> {},
     cleanup |-> {}, pre |-> NoHandle, prefs |-> {},
     child |-> FALSE, released |-> FALSE, cancelAt |-> "never",
     proc |-> "none", state |-> NoState, mon |-> "none", capture |-> "nil",
     res |-> ZeroResult, collected |-> FALSE, closed |-> FALSE, closeErr |-> Nil,
     ch |-> MakeChan, sent |-> 0,
     waiters |-> [w \in Waiters |-> IdleWaiter]]

\* The handles a job is started on
OpenedHandles == {Open(<<35, 33>>, {}, {}), efrunOpen(<<35, 33>>, {}, {})}

\* What the environment does while the monitor closes the handle: nothing,
\* or every system call of the close fails
MonitorCloseFaults == {{}, {"close", "remove"}}

InitBg ==
    /\ \E h \in OpenedHandles : r = h.r /\ fs = h.fs
    /\ bg = NewJob
    /\ cc = [op |-> "none"]
    /\ last = NoOp
    /\ ctxs = ScopeCtxs
    /\ pols = ScopeHeap
    /\ hist = <<>>
    /\ plast = [op |-> "none"]
    /\ ParseIdle

\* What StartBackground of executil.go sets on the command: the arguments and
\* the three streams
BgSetups ==
    {Setup(<<<<97>>>>, NilSlice, <<>>, "nil", "nil", "nil", NilSlice, "nil", 0),
     Setup(<<<<97>>>>, NilSlice, <<>>, "r", "w", "w", NilSlice, "nil", 0)}

\* The system calls that fail while StartBackground closes the handle after a
\* start failure
CleanupFaults == {{}, {"remove"}}

\* run.StartBackground(ctx, cmd, combined) of the handle's package
runStartBackground(c, cmd, combined, sc) ==
    IF r.pkg = "emrun"
    THEN StartBackground(r, fs, c, cmd, combined, Outcome(sc.e1, 1), Outcome(sc.e2, 2), sc.env)
    ELSE efrunStartBackground(r, fs, c, cmd, combined, Outcome(sc.e1, 1))

\* run.Close() of the handle's package
runClose(rr, files, env) ==
    IF rr.pkg = "efrun" THEN efrunClose(rr, files, env) ELSE Close(rr, files, env)

\* The current stage of the job, for a cancellation to remember
Stage ==
    IF bg.sent > 0 THEN "delivered"
    ELSE IF bg.proc = "ended" THEN "ended"
    ELSE "running"

\* A blocked waiter returns with what the case of its select gives
Returned(w, x) == [w EXCEPT !.st = "returned", !.res = x.res, !.via = x.via]

\* StartBackground(parentCtx, run, args, stdin, stdout, stderr, combined) on
\* the scope c.  When run.StartBackground panics, the panic leaves
\* StartBackground at once; when it returns an error the handle is closed and
\* the child scope cancelled; otherwise the monitor is started
BgStart ==
    \E c \in 1..Len(ctxs), setup \in BgSetups, combined \in BOOLEAN,
       cenv \in CleanupFaults :
      \E sc \in ScenariosOf(c, CommandContext(Name(r), setup), combined) :
        /\ bg.job = "none"
        /\ \E x \in {runStartBackground(c, CommandContext(Name(r), setup), combined, sc)} :
              /\ cenv # {} => (x.err # Nil /\ ~x.panicked)
              /\ IF x.panicked
                 THEN /\ r' = x.r
                      /\ fs' = x.fs
                      /\ bg' = [bg EXCEPT !.job = "panicked", !.ctx = c,
                                          !.combined = combined, !.calls = x.calls,
                                          !.first = sc.e1, !.second = sc.e2,
                                          !.env = sc.env, !.pre = r, !.prefs = fs]
                 ELSE IF x.err # Nil
                 THEN \E y \in {runClose(x.r, x.fs, cenv)} :
                         /\ r' = y.r
                         /\ fs' = y.fs
                         /\ bg' = [bg EXCEPT !.job = "failed", !.err = x.err, !.ctx = c,
                                             !.combined = combined, !.calls = x.calls,
                                             !.first = sc.e1, !.second = sc.e2,
                                             !.env = sc.env,
                                             !.cleanup = cenv, !.pre = r, !.prefs = fs,
                                             !.closed = TRUE, !.child = TRUE]
                 ELSE /\ r' = x.r
                      /\ fs' = x.fs
                      /\ bg' = [bg EXCEPT !.job = "running",
                                          !.capture = x.capture,
                                          !.proc = "running", !.mon = "wait"]
        /\ UNCHANGED <<ctxs, pols, hist, plast, pin, pout, last, cc>>

\* The process ends of its own
ProcEnd ==
    \E st \in NaturalEnds :
        /\ bg.proc = "running"
        /\ bg' = [bg EXCEPT !.proc = "ended", !.state = st]
        /\ UNCHANGED <<r, fs, ctxs, pols, hist, plast, pin, pout, last, cc>>

\* The command, bound to the child scope, kills the process once that scope
\* is cancelled
ProcKill ==
    /\ bg.proc = "running"
    /\ bg.child
    /\ bg' = [bg EXCEPT !.proc = "ended", !.state = Killed]
    /\ UNCHANGED <<r, fs, ctxs, pols, hist, plast, pin, pout, last, cc>>

\* The process ends and the wait system call fails: cmd.Wait() has no state
ProcLost ==
    /\ bg.proc = "running"
    /\ bg' = [bg EXCEPT !.proc = "ended", !.state = NoState]
    /\ UNCHANGED <<r, fs, ctxs, pols, hist, plast, pin, pout, last, cc>>

\* The monitor: res := WaitCommand(execCmd, cap)
MonWait ==
    /\ bg.mon = "wait"
    /\ bg.proc = "ended"
    /\ bg' = [bg EXCEPT !.res = WaitCommand(bg.state, bg.capture),
                        !.collected = TRUE,
                        !.mon = monitorNext("wait")]
    /\ UNCHANGED <<r, fs, ctxs, pols, hist, plast, pin, pout, last, cc>>

\* The monitor: if err := rn.Close(); err != nil && res.Error == nil
MonClose ==
    \E env \in MonitorCloseFaults :
        /\ bg.mon = "close"
        /\ \E y \in {runClose(r, fs, env)} :
              /\ r' = y.r
              /\ fs' = y.fs
              /\ bg' = [bg EXCEPT !.res = foldCloseError(@, y.err),
                                  !.closeErr = y.err,
                                  !.closed = TRUE,
                                  !.mon = monitorNext("close")]
        /\ UNCHANGED <<ctxs, pols, hist, plast, pin, pout, last, cc>>

\* The monitor: once.Do(func() { done <- res; close(done) }).  One of the
\* waiters blocked in a select receives the Result; the close wakes the
\* others, which receive the zero Result of a closed channel
MonSend ==
    /\ bg.mon = "send"
    /\ CanSend(bg.ch, {w \in Waiters : bg.waiters[w].st = "blocked"})
    /\ LET blocked == {w \in Waiters : bg.waiters[w].st = "blocked"}
           sent    == deliver(bg.ch, bg.res)
       IN  IF blocked = {}
           THEN bg' = [bg EXCEPT !.ch = sent, !.sent = @ + Len(sent.buf) - Len(bg.ch.buf),
                                 !.mon = monitorNext("send")]
           ELSE \E w0 \in blocked :
                  bg' = [bg EXCEPT
                           !.ch = caseDone(sent).ch,
                           !.sent = @ + Len(sent.buf) - Len(bg.ch.buf),
                           !.mon = monitorNext("send"),
                           !.waiters = [w \in Waiters |->
                               IF w = w0 THEN Returned(@[w], caseDone(sent))
                               ELSE IF w \in blocked
                               THEN Returned(@[w], caseDone(MakeChan))
                               ELSE @[w]]]
    /\ UNCHANGED <<r, fs, ctxs, pols, hist, plast, pin, pout, last, cc>>

\* The monitor: closer(), the cancel of the child scope
MonRelease ==
    /\ bg.mon = "release"
    /\ bg' = [bg EXCEPT !.child = TRUE, !.released = TRUE,
                        !.mon = monitorNext("release"),
                        !.waiters = [w \in Waiters |->
                            IF @[w].st = "blocked" /\ @[w].scope = "job"
                            THEN Returned(@[w], caseCtx(bg.ch))
                            ELSE @[w]]]
    /\ UNCHANGED <<r, fs, ctxs, pols, hist, plast, pin, pout, last, cc>>

\* The caller calls bg.Cancel(), or the scope it started the job on is
\* cancelled: the child scope is cancelled, and the waiters blocked on it
\* return its error
Cancel ==
    \E by \in {"caller", "parent"} :
        /\ bg.job = "running"
        /\ bg.cancelAt = "never"
        /\ bg' = [bg EXCEPT !.child = TRUE,
                            !.cancelAt = Stage,
                            !.waiters = [w \in Waiters |->
                                IF @[w].st = "blocked" /\ @[w].scope = "job"
                                THEN Returned(@[w], caseCtx(bg.ch))
                                ELSE @[w]]]
        /\ UNCHANGED <<r, fs, ctxs, pols, hist, plast, pin, pout, last, cc>>

\* The context of its own a waiter is blocked on is cancelled
WaiterCancel ==
    \E w \in Waiters :
        /\ bg.waiters[w].st = "blocked"
        /\ bg.waiters[w].scope = "own"
        /\ bg' = [bg EXCEPT !.waiters[w] = Returned(@, caseCtx(bg.ch))]
        /\ UNCHANGED <<r, fs, ctxs, pols, hist, plast, pin, pout, last, cc>>

\* Whether the context a waiter calls with is done: the child scope for
\* Wait(), and for a context of its own whether it calls with it cancelled
ScopeDone(scope, cancelled) ==
    \/ scope = "job" /\ bg.child
    \/ scope = "own" /\ cancelled

\* bg.Wait() (scope "job") or bg.WaitWithContext(ctx) (scope "own", on a
\* context that is cancelled or not): the select takes one of the cases
\* that can proceed, and blocks when none can.  The waiters call in turn
WaitCall ==
    \E w \in Waiters, scope \in {"job", "own"}, cancelled \in BOOLEAN :
        /\ bg.job = "running"
        /\ bg.waiters[w].st = "idle"
        /\ \A v \in Waiters : v < w => bg.waiters[v].st # "idle"
        /\ cancelled => scope = "own"
        /\ \E called \in {[bg.waiters[w] EXCEPT !.scope = scope]} :
              \/ /\ ~CanReceive(bg.ch)
                 /\ ~ScopeDone(scope, cancelled)
                 /\ bg' = [bg EXCEPT !.waiters[w] = [called EXCEPT !.st = "blocked"]]
              \/ /\ CanReceive(bg.ch)
                 /\ bg' = [bg EXCEPT !.waiters[w] = Returned(called, caseDone(bg.ch)),
                                     !.ch = caseDone(bg.ch).ch]
              \/ /\ ScopeDone(scope, cancelled)
                 /\ bg' = [bg EXCEPT !.waiters[w] = Returned(called, caseCtx(bg.ch)),
                                     !.ch = caseCtx(bg.ch).ch]
        /\ UNCHANGED <<r, fs, ctxs, pols, hist, plast, pin, pout, last, cc>>

\* The wait errors exitCodeFrom is called with: none, an error that is no
\* exit error, exit errors with a state, an exit error without one
WaitErrors ==
    {Nil, ErrorNew("boom"), Errno("ECHILD"), ExitErrorOf(NoState)}
        \cup {ExitErrorOf(st) : st \in ProcStates}

\* exitCodeFrom(waitErr, state) called on its own, as TestExitCodeFrom does:
\* the Result holds the error and the code
ExitCodeFromCall ==
    \E waitErr \in WaitErrors, st \in ProcStates \cup {NoState} :
        /\ bg.job = "none"
        /\ bg' = [bg EXCEPT !.job = "exitCodeFrom", !.state = st,
                            !.res = Result(exitCodeFrom(waitErr, st), waitErr, <<>>)]
        /\ UNCHANGED <<r, fs, ctxs, pols, hist, plast, pin, pout, last, cc>>

NextBg ==
    \/ BgStart
    \/ ExitCodeFromCall
    \/ ProcEnd
    \/ ProcKill
    \/ ProcLost
    \/ MonWait
    \/ MonClose
    \/ MonSend
    \/ MonRelease
    \/ Cancel
    \/ WaiterCancel
    \/ WaitCall

SpecBg == InitBg /\ [][NextBg]_vars

\* The monitor is a goroutine of its own: the scheduler runs each step of it
\* that can proceed
SpecBgFair ==
    /\ SpecBg
    /\ WF_vars(MonWait)
    /\ WF_vars(MonClose)
    /\ WF_vars(MonSend)
    /\ WF_vars(MonRelease)

-----------------------------------------------------------------------------
(* Claims about digest-source parsing (SpecParse) *)

\* Whether a source is a []byte or a reader whose whole content is 32 bytes:
\* digestsFromBytes takes such content as one raw digest, whatever it holds
IsRawSized(src) ==
    /\ src.type \in {"bytes", "reader"}
    /\ Len(src.chunks[1]) = DigestSize

-----------------------------------------------------------------------------
(* Claims about the policy (SpecCall, SpecPolicy) *)

\* The verdict of context c's policy for digest d, in the current state
Verdict(c, d) == evaluate(pols, policyFromContext(ctxs, c), d)

\* The policy context c evaluates with; a context without policy evaluates as
\* an empty policy with default ALLOW does
SetsOf(c) ==
    LET p == policyFromContext(ctxs, c)
    IN  IF p = 0 THEN newExecutionPolicy ELSE pols[p]

\* c and the contexts it was derived from
RECURSIVE Ancestors(_)
Ancestors(c) == IF c = 0 THEN {} ELSE {c} \cup Ancestors(ctxs[c].parent)

\* The contexts of c's chain derived by a WithRule that lists digest d
Registrations(c, d) ==
    {a \in Ancestors(c) : hist[a].op = "WithRule" /\ d \in hist[a].digests}

\* C3: evaluate returns ALLOW when the scope has no policy; otherwise DENY for
\* a digest of the deny set, else ALLOW for a digest of the allow set, else
\* the default verdict; CheckPolicy returns a PolicyError exactly on DENY.
C3_EvaluatePriority ==
    plast.op = "CheckPolicy" =>
        LET p == policyFromContext(ctxs, plast.ctx)
            v == evaluate(pols, p, plast.digest)
        IN  /\ p = 0 => v = ALLOW
            /\ (p # 0 /\ plast.digest \in pols[p].deny) => v = DENY
            /\ (p # 0 /\ plast.digest \notin pols[p].deny /\ plast.digest \in pols[p].allow)
                  => v = ALLOW
            /\ (p # 0 /\ plast.digest \notin pols[p].deny \cup pols[p].allow)
                  => v = pols[p].defaultVerdict
            /\ plast.result = IF v = DENY THEN PolicyError(EncodeToString(plast.digest))
                              ELSE Nil

\* CheckPolicy has denied a digest of the deny set under default ALLOW
C3_Witness ==
    /\ plast.op = "CheckPolicy"
    /\ policyFromContext(ctxs, plast.ctx) # 0
    /\ plast.digest \in SetsOf(plast.ctx).deny
    /\ SetsOf(plast.ctx).defaultVerdict = ALLOW
    /\ plast.result.kind = "PolicyError"

\* C4: after any sequence of WithPolicy and WithRule derivations from
\* context.Background(), the allow set and the deny set of every policy are
\* disjoint, and the digests a WithRule lists are in the set of its verdict
\* and not in the other one.
C4_AllowDenyDisjoint ==
    /\ \A p \in 1..Len(pols) : pols[p].allow \cap pols[p].deny = {}
    /\ (plast.op = "WithRule" /\ plast.out # plast.ctx) =>
          LET q == pols[ctxs[plast.out].pol]
          IN  IF plast.verdict = ALLOW
              THEN plast.listed \subseteq q.allow /\ plast.listed \cap q.deny = {}
              ELSE plast.listed \subseteq q.deny /\ plast.listed \cap q.allow = {}

\* A WithRule(DENY) has listed a digest its parent's policy allowed
C4_Witness ==
    /\ plast.op = "WithRule"
    /\ plast.verdict = DENY
    /\ plast.out # plast.ctx
    /\ plast.listed \cap SetsOf(plast.ctx).allow # {}
    /\ plast.listed \subseteq SetsOf(plast.out).deny

\* Context c is WithRule(WithPolicy(ctx, DENY), ALLOW, ...) for a ctx without
\* policy, and lists at least one digest
IsDenyByDefaultWithAllow(c) ==
    /\ hist[c].op = "WithRule"
    /\ hist[c].verdict = ALLOW
    /\ hist[c].digests # {}
    /\ hist[ctxs[c].parent].op = "WithPolicy"
    /\ hist[ctxs[c].parent].verdict = DENY
    /\ policyFromContext(ctxs, ctxs[ctxs[c].parent].parent) = 0

\* C5: on a scope built with default DENY and an ALLOW rule, CheckPolicy
\* returns nil for the digests the rule lists and a PolicyError carrying the
\* digest's hex form for every other digest; on a scope derived from it by a
\* WithRule(DENY) that lists D, CheckPolicy denies D and D is not in the allow
\* set.
C5_AllowThenDeny ==
    \A c \in 2..Len(ctxs) :
        IsDenyByDefaultWithAllow(c) =>
            /\ \A d \in Digests :
                  CheckPolicy(ctxs, pols, c, d, EncodeToString(d)) =
                      (IF d \in hist[c].digests THEN Nil ELSE PolicyError(EncodeToString(d)))
            /\ \A e \in 2..Len(ctxs) :
                  (ctxs[e].parent = c /\ hist[e].op = "WithRule" /\ hist[e].verdict = DENY) =>
                      \A d \in hist[e].digests :
                          /\ CheckPolicy(ctxs, pols, e, d, EncodeToString(d)) =
                                PolicyError(EncodeToString(d))
                          /\ d \notin SetsOf(e).allow

\* Default DENY, then ALLOW for DA, then DENY for DA
C5_Witness ==
    \E c, e \in 2..Len(ctxs) :
        /\ IsDenyByDefaultWithAllow(c)
        /\ DA \in hist[c].digests
        /\ ctxs[e].parent = c
        /\ hist[e].op = "WithRule"
        /\ hist[e].verdict = DENY
        /\ DA \in hist[e].digests
        /\ Verdict(c, DA) = ALLOW
        /\ Verdict(e, DA) = DENY

\* C6 as stated: when a digest has been registered by WithRule under ALLOW
\* and under DENY on one chain of derived scopes, in either order, evaluate
\* returns DENY for it.
C6_AsStated ==
    \A c \in 1..Len(ctxs), d \in Digests :
        (\E a, b \in Registrations(c, d) : hist[a].verdict = ALLOW /\ hist[b].verdict = DENY)
            => Verdict(c, d) = DENY

\* C6 (amended): the last registration wins.  When a digest has been
\* registered by WithRule on the chain of a scope, evaluate returns for it
\* the verdict of the latest WithRule of the chain that lists it: DENY when
\* DENY was registered last, ALLOW when ALLOW was registered last.
C6_LastRuleWins ==
    \A c \in 1..Len(ctxs), d \in Digests :
        Registrations(c, d) # {} =>
            LET latest == CHOOSE a \in Registrations(c, d) :
                              \A b \in Registrations(c, d) : b <= a
            IN  Verdict(c, d) = hist[latest].verdict

\* DA registered under DENY and then under ALLOW: it is allowed; and on
\* another chain under ALLOW and then under DENY: it is denied
C6_Witness ==
    /\ \E c \in 1..Len(ctxs) :
          /\ hist[c].op = "WithRule" /\ hist[c].verdict = ALLOW /\ DA \in hist[c].digests
          /\ \E a \in Registrations(ctxs[c].parent, DA) : hist[a].verdict = DENY
          /\ Verdict(c, DA) = ALLOW
    /\ \E c \in 1..Len(ctxs) :
          /\ hist[c].op = "WithRule" /\ hist[c].verdict = DENY /\ DA \in hist[c].digests
          /\ \E a \in Registrations(ctxs[c].parent, DA) : hist[a].verdict = ALLOW
          /\ Verdict(c, DA) = DENY

\* What a derived context keeps of its parent
KeepsParent(c) ==
    LET b == ctxs[c].parent
    IN  /\ hist[c].op = "WithPolicy" =>
              /\ SetsOf(c).allow = SetsOf(b).allow
              /\ SetsOf(c).deny = SetsOf(b).deny
              /\ SetsOf(c).defaultVerdict = hist[c].verdict
        /\ hist[c].op = "WithRule" =>
              /\ SetsOf(c).defaultVerdict = SetsOf(b).defaultVerdict
              /\ \A d \in Digests \ hist[c].digests : Verdict(c, d) = Verdict(b, d)
              /\ \A d \in hist[c].digests : Verdict(c, d) = hist[c].verdict
        /\ hist[c].op = "WithCancel" => SetsOf(c) = SetsOf(b)

\* The hexadecimal form of each digest
HexOf == [d \in Digests |-> EncodeToString(d)]

\* C7: a scope derived by WithPolicy or WithRule evaluates every digest as
\* its parent does except for the default or the rules the call changed
\* (WithPolicy keeps every allow and deny entry), and no derivation changes
\* the verdict or what CheckPolicy returns on any scope that existed before.
C7_CopyOnWrite ==
    /\ [](\A c \in 2..Len(ctxs) : KeepsParent(c))
    /\ [][\A c \in 1..Len(ctxs), d \in Digests :
             /\ evaluate(pols', policyFromContext(ctxs', c), d) = Verdict(c, d)
             /\ CheckPolicy(ctxs', pols', c, d, HexOf[d]) =
                   CheckPolicy(ctxs, pols, c, d, HexOf[d])]_vars

\* Two scopes derived from one parent, each with a verdict its parent and its
\* sibling do not share
C7_Witness ==
    \E b, c, e \in 1..Len(ctxs) :
        /\ ctxs[c].parent = b
        /\ ctxs[e].parent = b
        /\ hist[c].op = "WithRule"
        /\ hist[e].op = "WithPolicy"
        /\ Verdict(c, DA) # Verdict(b, DA)
        /\ Verdict(e, DB) # Verdict(b, DB)
        /\ Verdict(c, DB) = Verdict(b, DB)

\* C8 as stated: when a source is unparseable or the verdict is unsupported,
\* WithRuleCatchError returns an error and the scope it was given, and
\* WithRule panics.
C8_AsStated ==
    (plast.op \in {"WithRuleCatchError", "WithRule"}
        /\ (plast.bad \/ plast.verdict \notin {ALLOW, DENY})) =>
            /\ plast.err # ""
            /\ plast.op = "WithRuleCatchError" => plast.out = plast.ctx
            /\ plast.op = "WithRule" => plast.panicked

-----------------------------------------------------------------------------
(* Claims about executing a handle (Spec) *)

\* Whether the last operation was an execute: Run or StartBackground
Executed == last.op \in {"Run", "StartBackground"}

\* C1 as stated: policy enforcement comes before process creation.  When the
\* policy in scope evaluates the handle's digest, the SHA-256 of its payload,
\* to DENY, the execute returns a PolicyError and the invoker is never called.
C1_AsStated ==
    (/\ Executed
     /\ policyFromContext(ctxs, last.ctx) # 0
     /\ evaluate(pols, policyFromContext(ctxs, last.ctx), Sum256(last.pre.payload)) = DENY)
    => /\ last.err = PolicyError(EncodeToString(Sum256(last.pre.payload)))
       /\ last.calls = <<>>

\* C2 as stated: the digest a handle presents to the policy is the SHA-256 of
\* its payload and the hex form is the encoding of that digest; once the hex
\* form is cached the stored digest is the payload's digest too.
C2_AsStated ==
    /\ Executed =>
          /\ last.digest = Sum256(last.pre.payload)
          /\ last.hex = EncodeToString(Sum256(last.pre.payload))
    /\ (r.pkg # "none" /\ r.sha256hex # <<>>) =>
          /\ r.sha256 = Sum256(r.payload)
          /\ r.sha256hex = EncodeToString(r.sha256)

\* The errors of the permission class: EACCES or EPERM, bare or wrapped in a
\* path error, and the exec error that wraps os.ErrPermission
PermissionDenials ==
    {PathError(Errno("EACCES")), ExecError(ErrPermission), Errno("EPERM")}

\* Whether the last operation was an execute of an anonymous-memory handle of a
\* payload whose first call of the invoker failed with a permission denial,
\* whose switch to a temporary file met no failure and whose second call of the
\* invoker succeeded
FellBack ==
    /\ Executed
    /\ IsMemfd(last.pre)
    /\ last.pre.payload # <<>>
    /\ Len(last.calls) >= 1
    /\ last.first \in PermissionDenials
    /\ last.env = {}
    /\ last.second = Nil

\* C10: fallback on permission denial.  Such an execute calls the invoker
\* exactly twice, first on the anonymous-memory name and then on the name of
\* the temporary file the handle now has, with the caller's arguments and
\* streams; the handle is no longer anonymous memory; Run returns the second
\* call's output and no error, StartBackground the second command and its
\* capture and no error.
C10_FallbackOnPermissionDenial ==
    FellBack =>
        /\ Len(last.calls) = 2
        /\ last.calls[1] = last.cmd
        /\ last.cmd.path = last.pre.name
        /\ last.calls[2].path = r.name
        /\ last.calls[2].args = <<r.name>> \o Tail(last.cmd.args)
        /\ last.calls[2].stdout = last.cmd.stdout
        /\ last.calls[2].stderr = last.cmd.stderr
        /\ r.name.dir = "/tmp/"
        /\ ~IsMemfd(r)
        /\ \E f \in fs : f.name = r.name /\ f.content = last.pre.payload
        /\ last.err = Nil
        /\ ~last.panicked
        /\ last.op = "Run" =>
              last.out = (IF last.combined THEN Outcome(Nil, 2).out ELSE <<>>)
        /\ last.op = "StartBackground" =>
              /\ last.started.path = r.name
              /\ last.capture = (IF last.combined THEN "enabled" ELSE "disabled")

\* A Run with combined output that fell back and returned the second output
C10_Witness ==
    /\ FellBack
    /\ last.op = "Run"
    /\ last.combined
    /\ last.first = PathError(Errno("EACCES"))
    /\ Len(last.calls) = 2
    /\ last.out = Outcome(Nil, 2).out
    /\ last.err = Nil
    /\ ~IsMemfd(r)

\* Whether the last operation was an execute of an anonymous-memory handle
\* whose first call of the invoker failed with a permission denial and whose
\* switch to a temporary file failed: the handle retains no payload, or the
\* creation, the write or the chmod of the temporary file failed
FallbackFailed ==
    /\ Executed
    /\ IsMemfd(last.pre)
    /\ Len(last.calls) >= 1
    /\ last.first \in PermissionDenials
    /\ \/ last.pre.payload = <<>>
       \/ last.env \cap {"create", "write", "chmod"} # {}

\* The system error that made the switch fail
FallbackCause ==
    IF last.env \cap {"create", "write"} # {} THEN PathError(Errno("ENOSPC"))
    ELSE PathError(Errno("EPERM"))

\* C11: when the fallback transition fails after a permission-class failure,
\* the execute returns one error that wraps the original permission error and
\* the fallback error (ERR_PAYLOAD_IS_EMPTY for a handle without payload), and
\* the invoker was called exactly once.
C11_FallbackFailureWrapsBoth ==
    FallbackFailed =>
        /\ Len(last.calls) = 1
        /\ last.calls[1] = last.cmd
        /\ ~last.panicked
        /\ last.started = NoCmd
        /\ last.err # Nil
        /\ Len(last.err.wraps) = 2
        /\ last.err.wraps[1] = last.first
        /\ ErrorsIs(last.err, last.first)
        /\ last.err.wraps[2] # Nil
        /\ last.pre.payload = <<>> => ErrorsIs(last.err, ERR_PAYLOAD_IS_EMPTY)
        /\ last.pre.payload # <<>> => ErrorsIs(last.err, FallbackCause)

\* A Run of a handle without payload whose fallback failed
C11_Witness ==
    /\ FallbackFailed
    /\ last.op = "Run"
    /\ last.pre.payload = <<>>
    /\ last.first = PathError(Errno("EACCES"))
    /\ ErrorsIs(last.err, ERR_PAYLOAD_IS_EMPTY)
    /\ Len(last.calls) = 1

\* A StartBackground whose fallback failed at the write of the temporary file
C11_WitnessWrite ==
    /\ FallbackFailed
    /\ last.op = "StartBackground"
    /\ last.pre.payload # <<>>
    /\ "write" \in last.env
    /\ ErrorsIs(last.err, PathError(Errno("ENOSPC")))

\* Whether the last operation was an execute whose first call of the invoker
\* failed outside the trigger of the fallback: the handle was not
\* anonymous-memory-backed, or the error was not a permission denial
FailedOutsideTrigger ==
    /\ Executed
    /\ Len(last.calls) >= 1
    /\ last.first # Nil
    /\ \/ ~IsMemfd(last.pre)
       \/ last.first \notin PermissionDenials

\* C12: no fallback outside its trigger.  Such an execute returns the
\* invoker's error unchanged, has called the invoker exactly once, and leaves
\* the handle's backing kind, name and deleteOnClose (and its file) as they
\* were.
C12_NoFallbackOutsideTrigger ==
    FailedOutsideTrigger =>
        /\ last.err = last.first
        /\ Len(last.calls) = 1
        /\ last.calls[1] = last.cmd
        /\ ~last.panicked
        /\ IsMemfd(r) = IsMemfd(last.pre)
        /\ r.name = last.pre.name
        /\ r.deleteOnClose = last.pre.deleteOnClose
        /\ r.file = last.pre.file
        /\ r.closer = last.pre.closer

\* A handle that is temporary-file-backed after a fallback is refused
\* execution again: the permission error comes back as it is
C12_Witness ==
    /\ FailedOutsideTrigger
    /\ last.pre.pkg = "emrun"
    /\ last.pre.name.dir = "/tmp/"
    /\ last.first = PathError(Errno("EACCES"))
    /\ last.err = last.first
    /\ r.name = last.pre.name

\* An anonymous-memory handle whose process exits with a non-zero status
C12_WitnessExit ==
    /\ FailedOutsideTrigger
    /\ IsMemfd(last.pre)
    /\ last.first = ExitError
    /\ last.err = ExitError
    /\ IsMemfd(r)

C13_WitnessSwitchAgain ==
    /\ last.op = "switchToTemporaryFile"
    /\ last.pre.name.dir = "/tmp/"
    /\ last.pre.deleteOnClose
    /\ last.err = ERR_NOT_AN_INMEMORY_FD
    /\ fs # {}

\* C14: the backing transition is one-directional.  No operation on a handle
\* (execute, switchToTemporaryFile, Close) makes IsMemfd true again once it is
\* false.
C14_OneDirectional ==
    [][(r.pkg # "none" /\ ~IsMemfd(r)) => ~IsMemfd(r')]_vars

\* A handle that a fallback made file-backed has been closed and executed
\* again, and is still not anonymous memory
C14_Witness ==
    /\ Executed
    /\ last.pre.pkg = "emrun"
    /\ last.pre.name.dir = "/tmp/"
    /\ ~last.pre.deleteOnClose
    /\ last.pre.file = "closed"
    /\ ~IsMemfd(r)

\* Whether the file the handle names exists
FileExists == \E f \in fs : f.name = r.name

\* C15: in every state of a handle, an anonymous-memory-backed handle has
\* deleteOnClose false, and Close of such a handle removes no file; a
\* temporary-file-backed handle whose file exists has deleteOnClose true.
C15_DeleteOnCloseMatchesBacking ==
    /\ (r.pkg # "none" /\ IsMemfd(r)) => ~r.deleteOnClose
    /\ (r.pkg # "none" /\ ~IsMemfd(r) /\ FileExists) => r.deleteOnClose
    /\ (last.op = "Close" /\ IsMemfd(last.pre)) => fs = last.prefs

\* A handle that a fallback made temporary-file-backed owns its executable
\* file
C15_Witness ==
    /\ Executed
    /\ IsMemfd(last.pre)
    /\ r.pkg = "emrun"
    /\ ~IsMemfd(r)
    /\ r.deleteOnClose
    /\ \E f \in fs : f.name = r.name /\ f.mode = "0700" /\ f.content = r.payload

\* An anonymous-memory-backed handle has been closed
C15_WitnessClose ==
    /\ last.op = "Close"
    /\ IsMemfd(last.pre)
    /\ last.pre.file = "open"
    /\ r.file = "closed"
    /\ last.err = Nil

\* An execute that issued the invocation a second time
Reissued == Executed /\ Len(last.calls) = 2

\* C16: the invocation issued after a fallback differs from the caller's only
\* in its target: its path and its argv[0] are the new name of the handle;
\* argv[1..], the environment, the working directory, stdin, stdout, stderr,
\* the extra descriptors, the process attributes and the wait delay are those
\* of the caller's command; and it is another exec.Cmd than the caller's,
\* which was the first one run.
C16_ReissuedDiffersOnlyInTarget ==
    Reissued =>
        /\ last.calls[1] = last.cmd
        /\ last.calls[2].obj # last.cmd.obj
        /\ ~IsMemfd(r)
        /\ last.calls[2].path = r.name
        /\ last.calls[2].args[1] = r.name
        /\ Len(last.calls[2].args) = Len(last.cmd.args)
        /\ Tail(last.calls[2].args) = Tail(last.cmd.args)
        /\ last.calls[2].env = last.cmd.env
        /\ last.calls[2].dir = last.cmd.dir
        /\ last.calls[2].stdin = last.cmd.stdin
        /\ last.calls[2].stdout = last.cmd.stdout
        /\ last.calls[2].stderr = last.cmd.stderr
        /\ last.calls[2].extraFiles = last.cmd.extraFiles
        /\ last.calls[2].sysProcAttr = last.cmd.sysProcAttr
        /\ last.calls[2].waitDelay = last.cmd.waitDelay

\* A command with every field set was issued again on the temporary file
C16_Witness ==
    /\ Reissued
    /\ last.op = "Run"
    /\ last.cmd.path = MemfdName
    /\ last.calls[2].path # MemfdName
    /\ Len(last.cmd.args) = 3
    /\ last.cmd.env = Slice(<<"A=B">>)
    /\ last.cmd.extraFiles = Slice(<<>>)
    /\ last.cmd.sysProcAttr = "Setsid"
    /\ last.cmd.waitDelay = 123
    /\ last.cmd.stdin = "r"
    /\ last.cmd.stdout = "w"

\* The same for a command started in the background with extra descriptors
C16_WitnessBackground ==
    /\ Reissued
    /\ last.op = "StartBackground"
    /\ ~last.panicked
    /\ last.started = last.calls[2]
    /\ last.cmd.extraFiles = Slice(<<3>>)
    /\ last.cmd.env = Slice(<<>>)

-----------------------------------------------------------------------------
(* Claims about opening a handle (Spec) *)

\* C17: Open of the empty payload fails with ERR_PAYLOAD_IS_EMPTY, returns
\* no handle and creates no temporary file, in emrun and in efrun.
C17_AsStated ==
    (last.op = "Open" /\ last.payload = <<>>) =>
        /\ last.err = ERR_PAYLOAD_IS_EMPTY
        /\ r = NoHandle
        /\ fs = last.prefs

\* What holds of it: efrun.Open rejects the empty payload and creates nothing
C17_EfrunRejectsEmptyPayload ==
    (last.op = "Open" /\ last.pkg = "efrun" /\ last.payload = <<>>) =>
        /\ last.err = ERR_PAYLOAD_IS_EMPTY
        /\ r = NoHandle
        /\ fs = last.prefs

\* C18: when memfd_create fails during Open of a payload that is not empty,
\* Open returns no error and a handle that is not anonymous memory, deletes
\* on close, and names a temporary file holding the payload with mode 0700.
C18_AsStated ==
    (last.op = "Open" /\ last.pkg = "emrun" /\ "memfd" \in last.env
        /\ last.payload # <<>>) =>
        /\ last.err = Nil
        /\ r.pkg = "emrun"
        /\ ~IsMemfd(r)
        /\ r.deleteOnClose
        /\ File(r.name, last.payload, "0700") \in fs

\* What Open does then: it returns ERR_NOT_AN_INMEMORY_FD and no handle, and
\* creates no file
C18_OpenFailsWithoutMemfd ==
    (last.op = "Open" /\ last.pkg = "emrun" /\ "memfd" \in last.env) =>
        /\ last.err = ERR_NOT_AN_INMEMORY_FD
        /\ r = NoHandle
        /\ fs = last.prefs

\* A handle that was opened on a payload and has not been closed: anonymous
\* memory, a temporary file chosen at open, or the temporary file a fallback
\* wrote and made executable
Backed(rr, files) ==
    \/ IsMemfd(rr) /\ rr.file = "open"
    \/ rr.pkg = "efrun" /\ rr.file = "open"
    \/ rr.pkg = "emrun" /\ ~IsMemfd(rr) /\ rr.deleteOnClose
          /\ File(rr.name, rr.payload, "0700") \in files

\* C19: on a handle opened on a payload that is not empty and not closed
\* since, seeking to offset zero and reading to the end returns no error and
\* the payload, whichever backing the handle has.
C19_AsStated ==
    (last.op = "ReadAll" /\ r.payload # <<>> /\ Backed(r, fs)) =>
        /\ last.err = Nil
        /\ last.out = r.payload

\* What holds of it: while the handle holds its file open (the memfd, or the
\* file efrun reopened) the payload is read back
C19_RoundTripWhileOpen ==
    (last.op = "ReadAll" /\ r.payload # <<>> /\ r.file = "open") =>
        /\ last.err = Nil
        /\ last.out = r.payload

\* and after a fallback the handle holds the closed temporary file: the file
\* on disk has the payload, and reading the handle fails
C19_ClosedAfterFallback ==
    (last.op = "ReadAll" /\ r.pkg = "emrun" /\ ~IsMemfd(r) /\ r.name # NoName) =>
        /\ r.file = "closed"
        /\ last.err = PathError(ErrClosed)
        /\ last.out = <<>>

-----------------------------------------------------------------------------
(* Claims about closing a handle (Spec) *)

\* A close that returned no error
ClosedClean(l) == l.op = "Close" /\ l.err = Nil

\* C20: after a close that returns no error, whatever was executed on the
\* handle before, no temporary file of the handle exists, the handle no
\* longer deletes on close and holds no open file; and a close that follows
\* such a close returns no error, removes nothing and leaves the handle as it
\* is.
C20_NoLeakedTemporaryFile ==
    [][/\ ClosedClean(last') =>
              /\ \A f \in fs' : f.name # r'.name
              /\ ~r'.deleteOnClose
              /\ r'.file # "open"
              /\ r'.pkg = "emrun" => ~r'.closer
       /\ (ClosedClean(last) /\ last'.op = "Close") =>
              /\ last'.err = Nil
              /\ fs' = fs
              /\ r' = r]_vars

\* A handle that fell back to a temporary file was closed without error, and
\* the file was there before the close
C20_Witness ==
    /\ ClosedClean(last)
    /\ last.pkg = "emrun"
    /\ ~IsMemfd(last.pre)
    /\ File(last.pre.name, last.pre.payload, "0700") \in last.prefs
    /\ fs = {}

\* A handle whose fallback failed while writing, and whose temporary file
\* could not be removed then, was closed without error
C20_WitnessFailedFallback ==
    /\ ClosedClean(last)
    /\ last.pkg = "emrun"
    /\ ~IsMemfd(last.pre)
    /\ File(last.pre.name, <<>>, "0600") \in last.prefs
    /\ fs = {}

\* A handle closed twice
C20_WitnessSecondClose ==
    /\ ClosedClean(last)
    /\ last.pre.file # "open"
    /\ ~last.pre.deleteOnClose
    /\ last.pre.name # NoName
    /\ "remove" \in last.env

\* Whether the last close closed a file and that failed, and whether it
\* removed the temporary file and that failed
CloseFailed ==
    /\ last.op = "Close"
    /\ last.pre.file # "nil"
    /\ last.pkg = "emrun" => last.pre.closer
    /\ "close" \in last.env

RemoveFailed ==
    /\ last.op = "Close"
    /\ last.pre.deleteOnClose
    /\ last.pre.name # NoName
    /\ "remove" \in last.env \/ \A f \in last.prefs : f.name # last.pre.name

\* C21: a close returns an error wrapping the close error and the remove
\* error when both fail, the one error when one fails, and nil when none
\* does; after a failed removal deleteOnClose is still true and the file is
\* still there.
C21_CloseReportsEveryFailure ==
    last.op = "Close" =>
        /\ (CloseFailed /\ RemoveFailed) =>
              /\ Len(last.err.wraps) = 2
              /\ last.err.wraps[1] = FileClose(last.env)
              /\ last.err.wraps[2] = Remove(last.prefs, last.pre.name, last.env).err
              /\ ErrorsIs(last.err, Errno("EIO"))
        /\ (CloseFailed /\ ~RemoveFailed) => last.err = FileClose(last.env)
        /\ (~CloseFailed /\ RemoveFailed) =>
              last.err = Remove(last.prefs, last.pre.name, last.env).err
        /\ (~CloseFailed /\ ~RemoveFailed) => last.err = Nil
        /\ RemoveFailed => (r.deleteOnClose /\ fs = last.prefs /\ last.err # Nil)

\* An efrun handle whose close and removal both failed
C21_Witness ==
    /\ CloseFailed
    /\ RemoveFailed
    /\ last.pkg = "efrun"
    /\ r.deleteOnClose
    /\ \E f \in fs : f.name = r.name

\* The same on the memfd-preferring handle is not reachable from its
\* operations: a handle of emrun that deletes on close holds no open file.
\* Its close alone fails,
C21_WitnessCloseOnly ==
    /\ CloseFailed
    /\ ~RemoveFailed
    /\ last.pkg = "emrun"

\* and its removal alone
C21_WitnessRemoveOnly ==
    /\ ~CloseFailed
    /\ RemoveFailed
    /\ last.pkg = "emrun"
    /\ r.deleteOnClose

-----------------------------------------------------------------------------
(* Claims about a denied execute (Spec) *)

\* An execute the policy denied
Denied(l) == l.op \in {"Run", "StartBackground"} /\ l.err.kind = "PolicyError"

\* Whether the scope c allows the digest: no policy in scope, or a policy
\* whose verdict on it is ALLOW
Allows(c, digest) ==
    \/ policyFromContext(ctxs, c) = 0
    \/ evaluate(pols, policyFromContext(ctxs, c), digest) = ALLOW

\* What a denied execute leaves alone: the handle and the files are as
\* before, and the invoker was not called
C22_DenialLeavesHandle ==
    Denied(last) =>
        /\ r = last.pre
        /\ fs = last.prefs
        /\ last.calls = <<>>
        /\ last.started = NoCmd

\* C22: a denied execute leaves the backing kind, the name, the open file
\* and deleteOnClose of the handle as they were, and the execute that follows
\* it, under a scope that allows the SHA-256 of the payload, calls the
\* invoker with the caller's command.
C22_AsStated ==
    [][/\ Denied(last') =>
              /\ IsMemfd(r') = IsMemfd(r)
              /\ r'.name = r.name
              /\ r'.file = r.file
              /\ r'.closer = r.closer
              /\ r'.deleteOnClose = r.deleteOnClose
              /\ fs' = fs
       /\ (/\ Denied(last)
           /\ last'.op \in {"Run", "StartBackground"}
           /\ Allows(last'.ctx, Sum256(r.payload))
           /\ newCommandCapture(last'.cmd, last'.combined) = Nil) =>
              /\ Len(last'.calls) >= 1
              /\ last'.calls[1] = last'.cmd]_vars

\* What holds of the later execute: it calls the invoker when the scope
\* allows the digest the handle presents, the one ensureDigest returns
C22_LaterExecuteOfPresentedDigest ==
    [][(/\ Denied(last)
        /\ last'.op \in {"Run", "StartBackground"}
        /\ Allows(last'.ctx, ensureDigest(r).digest)
        /\ newCommandCapture(last'.cmd, last'.combined) = Nil) =>
           /\ Len(last'.calls) >= 1
           /\ last'.calls[1] = last'.cmd]_vars

-----------------------------------------------------------------------------
(* SpecCapture: one command run by RunCommand, or started by StartCommand    *)
(* and waited for by WaitCommand, with the capture of its combined output.   *)
(* The package adapters/commandcapture is modelled from what the             *)
(* specification and its tests say of it: a capture is                       *)
(* [enabled, pending, resets], pending while its reset callback has not run. *)

\* The most writes a process makes
MaxWrites == 3

\* The most calls of Finish and Restore the caller makes on a capture after
\* the process has ended
MaxReleases == 2

\* What a process writes to its stdout and to its stderr
OutBytes == <<111, 117, 116>>

ErrBytes == <<101, 114, 114>>

\* The writes of a process, in the order it makes them
RECURSIVE ScriptsOf(_)
ScriptsOf(n) ==
    IF n = 0 THEN {<<>>}
    ELSE ScriptsOf(n - 1)
           \cup {Append(sc, w) : sc \in {x \in ScriptsOf(n - 1) : Len(x) = n - 1},
                                 w \in {[stream |-> "stdout", bytes |-> OutBytes],
                                        [stream |-> "stderr", bytes |-> ErrBytes]}}

\* The bytes of a sequence of writes, one after the other
RECURSIVE BytesOf(_)
BytesOf(script) ==
    IF script = <<>> THEN <<>> ELSE Head(script).bytes \o BytesOf(Tail(script))

\* How the caller binds the streams of the command: nothing, as RunIOBG does
\* (one writer for both), as RunIOEBG does (two writers), stdout only,
\* stderr only
CaptureSetups ==
    {Setup(<<>>, NilSlice, <<>>, "nil", "nil", "nil", NilSlice, "nil", 0),
     Setup(<<>>, NilSlice, <<>>, "r", "w", "w", NilSlice, "nil", 0),
     Setup(<<>>, NilSlice, <<>>, "r", "w", "e", NilSlice, "nil", 0),
     Setup(<<>>, NilSlice, <<>>, "nil", "w", "nil", NilSlice, "nil", 0),
     Setup(<<>>, NilSlice, <<>>, "nil", "nil", "e", NilSlice, "nil", 0)}

\* commandcapture.New()
captureNew == [enabled |-> FALSE, pending |-> FALSE, resets |-> 0]

\* capture.Enable(buf, reset)
captureEnable(capture) == [capture EXCEPT !.enabled = TRUE, !.pending = TRUE]

\* A binding that puts the buffer on the stdout of the command only
bindCaptureStdoutOnly(cmd) == [cmd EXCEPT !.stdout = "buf"]

\* cmd.Stdout = buf; cmd.Stderr = buf
bindCapture(cmd) == [cmd EXCEPT !.stdout = "buf", !.stderr = "buf"]

\* A reset callback that puts back the stdout of the command only
resetStreamsStdoutOnly(cmd, orig) == [cmd EXCEPT !.stdout = orig.stdout]

\* The reset callback of newCommandCapture: cmd.Stdout = origStdout;
\* cmd.Stderr = origStderr
resetStreams(cmd, orig) == [cmd EXCEPT !.stdout = orig.stdout, !.stderr = orig.stderr]

\* A newCommandCapture that enables the capture whether or not combined
\* output is requested
captureOfAlways(c, combined) ==
    [c EXCEPT !.capture = captureEnable(captureNew), !.cmd = bindCapture(@)]

\* newCommandCapture(cmd, combined) when it returns no error: the capture,
\* enabled on a new buffer when combined output is requested
captureOf(c, combined) ==
    IF ~combined THEN [c EXCEPT !.capture = captureNew]
    ELSE [c EXCEPT !.capture = captureEnable(captureNew), !.cmd = bindCapture(@)]

\* capture.Restore(): the reset callback runs if it has not run yet
captureRestore(c) ==
    IF c.capture.pending
    THEN [c EXCEPT !.capture.pending = FALSE, !.capture.resets = @ + 1,
                   !.cmd = resetStreams(@, c.orig)]
    ELSE c

\* What capture.Finish() returns: a copy of the bytes of the buffer, nil for
\* a capture that is not enabled
captureBytes(c) == IF c.capture.enabled THEN Slice(c.buf) ELSE NilSlice

\* capture.Finish(): the bytes, and Restore
captureFinish(c) ==
    [captureRestore(c) EXCEPT !.out = captureBytes(c),
                              !.finishes = @ \cup {captureBytes(c)}]

\* The invoker is called with the command: the process gets the streams the
\* command has at that moment
invoke(c) ==
    [c EXCEPT !.invoked = @ + 1,
              !.bound = [stdout |-> c.cmd.stdout, stderr |-> c.cmd.stderr]]

\* The process makes one write: it goes to what its stream is bound to, the
\* buffer of the capture, a writer of the caller, or nowhere
write(c, w) ==
    LET to == IF w.stream = "stdout" THEN c.bound.stdout ELSE c.bound.stderr
    IN  [c EXCEPT !.written = @ \o w.bytes,
                  !.buf = IF to = "buf" THEN @ \o w.bytes ELSE @,
                  !.sinks = IF to \in {"w", "e"} THEN [@ EXCEPT ![to] = @ \o w.bytes] ELSE @]

RECURSIVE writeAll(_, _)
writeAll(c, script) ==
    IF script = <<>> THEN c ELSE writeAll(write(c, Head(script)), Tail(script))

\* The state before a call: the command as the caller set it up
NoCapture ==
    [op |-> "none", phase |-> "idle", combined |-> FALSE,
     orig |-> NoCmd, cmd |-> NoCmd,
     bound |-> [stdout |-> "nil", stderr |-> "nil"], invoked |-> 0,
     writes |-> <<>>, script |-> <<>>, written |-> <<>>, buf |-> <<>>,
     sinks |-> [w |-> <<>>, e |-> <<>>],
     capture |-> captureNew, returned |-> FALSE,
     out |-> NilSlice, err |-> Nil, finishes |-> {}, releases |-> 0]

InitCapture ==
    /\ cc = NoCapture
    /\ r = [open |-> FALSE]
    /\ fs = {}
    /\ last = [op |-> "none"]
    /\ bg = [job |-> "none"]
    /\ PolicyIdle
    /\ ParseIdle

\* The command the caller hands over, and the writes its process will make
Called(op, setup, combined, script) ==
    [NoCapture EXCEPT !.op = op, !.combined = combined, !.writes = script,
                      !.orig = CommandContext(MemfdName, setup),
                      !.cmd = CommandContext(MemfdName, setup)]

\* RunCommand(runner, cmd, combinedOutput) with a process that makes the
\* writes of script and a runner that returns err
CapRunCommand ==
    \E setup \in CaptureSetups, combined \in BOOLEAN,
       script \in ScriptsOf(MaxWrites), err \in {Nil, ExitError} :
        /\ cc.phase = "idle"
        /\ \E c \in {Called("RunCommand", setup, combined, script)} :
              IF newCommandCapture(c.cmd, combined) # Nil
              THEN cc' = [c EXCEPT !.phase = "failed",
                                   !.err = newCommandCapture(c.cmd, combined)]
              ELSE cc' = [captureFinish(writeAll(invoke(captureOf(c, combined)), script))
                             EXCEPT !.phase = "done", !.err = err, !.finishes = {}]
        /\ UNCHANGED <<r, fs, ctxs, pols, hist, plast, pin, pout, last, bg>>

\* StartCommand(runner, cmd, combinedOutput) with a runner whose Start
\* returns err; the process started will make the writes of script
CapStartCommand ==
    \E setup \in CaptureSetups, combined \in BOOLEAN,
       script \in ScriptsOf(MaxWrites), err \in {Nil, PathError(Errno("EACCES"))} :
        /\ cc.phase = "idle"
        /\ err # Nil => script = <<>>
        /\ \E c \in {Called("StartCommand", setup, combined, script)} :
              IF newCommandCapture(c.cmd, combined) # Nil
              THEN cc' = [c EXCEPT !.phase = "failed",
                                   !.err = newCommandCapture(c.cmd, combined)]
              ELSE IF err # Nil
              THEN cc' = [captureRestore(invoke(captureOf(c, combined)))
                             EXCEPT !.phase = "failed", !.err = err]
              ELSE cc' = [invoke(captureOf(c, combined))
                             EXCEPT !.phase = "started", !.script = script,
                                    !.returned = TRUE]
        /\ UNCHANGED <<r, fs, ctxs, pols, hist, plast, pin, pout, last, bg>>

\* The process started makes its next write
CapWrite ==
    /\ cc.phase = "started"
    /\ cc.script # <<>>
    /\ cc' = [write(cc, Head(cc.script)) EXCEPT !.script = Tail(@)]
    /\ UNCHANGED <<r, fs, ctxs, pols, hist, plast, pin, pout, last, bg>>

\* WaitCommand(cmd, capture) once the process has ended:
\* res.CombinedOutput = capture.Finish()
CapWaitCommand ==
    /\ cc.phase = "started"
    /\ cc.script = <<>>
    /\ cc' = [captureFinish(cc) EXCEPT !.phase = "done"]
    /\ UNCHANGED <<r, fs, ctxs, pols, hist, plast, pin, pout, last, bg>>

\* The caller of StartCommand calls Finish on the capture it holds, the
\* process having ended
CapFinish ==
    /\ cc.returned
    /\ cc.script = <<>>
    /\ cc.releases < MaxReleases
    /\ cc' = [captureFinish(cc) EXCEPT !.releases = @ + 1, !.out = cc.out]
    /\ UNCHANGED <<r, fs, ctxs, pols, hist, plast, pin, pout, last, bg>>

\* The caller of StartCommand calls Restore on the capture it holds
CapRestore ==
    /\ cc.returned
    /\ cc.script = <<>>
    /\ cc.releases < MaxReleases
    /\ cc' = [captureRestore(cc) EXCEPT !.releases = @ + 1]
    /\ UNCHANGED <<r, fs, ctxs, pols, hist, plast, pin, pout, last, bg>>

NextCapture ==
    \/ CapRunCommand
    \/ CapStartCommand
    \/ CapWrite
    \/ CapWaitCommand
    \/ CapFinish
    \/ CapRestore

SpecCapture == InitCapture /\ [][NextCapture]_vars

-----------------------------------------------------------------------------
(* Claims about a background job (SpecBg)                                    *)

\* The waiters that have returned
ReturnedWaiters == {w \in Waiters : bg.waiters[w].st = "returned"}

\* C23: at most one Result per background job.  Whatever the interleaving of
\* the end of the process, the caller's Cancel and the cancellation of the
\* parent scope, no more than one Result is ever put on the completion
\* channel, and the channel never holds more than one.
C23_AtMostOneResult ==
    /\ bg.sent <= 1
    /\ Len(bg.ch.buf) <= 1
    /\ Cardinality({w \in ReturnedWaiters : bg.waiters[w].via = "done"}) <= 1

\* C23 witness: a job cancelled before its process ended has delivered its
\* one Result
C23_Witness ==
    /\ bg.job = "running"
    /\ bg.cancelAt = "running"
    /\ bg.sent = 1
    /\ bg.mon = "done"

\* C24 as stated: every waiter that returned otherwise than by the
\* cancellation of its scope holds the Result the job produced, with the
\* same exit code, error and combined output.
C24_AsStated ==
    \A w \in ReturnedWaiters :
        bg.waiters[w].via # "ctx" => bg.waiters[w].res = bg.res

\* C24: what the code does.  The waiter that receives the Result holds the
\* Result of the job; a waiter that finds the channel closed and empty holds
\* the zero Result
C24_OneWaiterReceives ==
    \A w \in ReturnedWaiters :
        /\ bg.waiters[w].via = "done" => bg.waiters[w].res = bg.res
        /\ bg.waiters[w].via = "closed" => bg.waiters[w].res = ZeroResult

\* C24: two waiters with live scopes have returned, the job having exited 7
C24_TwoWaiters ==
    /\ bg.state = Exited(7, "exit status 7")
    /\ \E v, w \in ReturnedWaiters :
          /\ v # w
          /\ bg.waiters[v].via = "done"
          /\ bg.waiters[w].via = "closed"
          /\ bg.waiters[w].scope = "own"

\* C25 as stated: when no caller cancelled before the Result was delivered,
\* every Wait() that has returned holds that Result, and none holds the
\* cancellation error.
C25_AsStated ==
    \A w \in ReturnedWaiters :
        (bg.waiters[w].scope = "job" /\ bg.cancelAt \in {"never", "delivered"})
            => /\ bg.waiters[w].res.err # Canceled
               /\ bg.waiters[w].res = bg.res

\* C25: nobody ever cancelled, the process exited with status 0, its Result
\* is still in the channel, and the first Wait() has returned the
\* cancellation error: the monitor's release of the child scope made the
\* stored context done
C25_ErasedByRelease ==
    /\ bg.cancelAt = "never"
    /\ bg.state = Exited(0, "exit status 0")
    /\ bg.ch.buf = <<bg.res>>
    /\ bg.res.err = Nil
    /\ bg.waiters[1].st = "returned"
    /\ bg.waiters[1].scope = "job"
    /\ bg.waiters[1].res = Result(0, Canceled, <<>>)
    /\ \A w \in Waiters \ {1} : bg.waiters[w].st = "idle"

\* C25: what the code does.  A Wait() that is blocked when the Result is
\* delivered, or that is called between the delivery and the release of the
\* child scope with the Result in the channel and no cancellation, returns
\* that Result
C25_WaitBeforeRelease ==
    [][\A w \in Waiters :
          (/\ bg.waiters[w].st # "returned"
           /\ bg'.waiters[w].st = "returned"
           /\ bg.waiters[w].st = "idle" => (bg.ch.buf # <<>> /\ ~bg.child)
           /\ bg.waiters[w].st = "blocked" => bg'.sent > bg.sent
           /\ bg'.waiters[w].scope = "job"
           /\ bg'.waiters[w].via # "closed")
          => bg'.waiters[w].res = bg'.res]_vars

\* C26: completion ordering in a background job.  A Result is on the
\* completion channel, or has been, only when the process has exited, its
\* output has been collected into the Result and the handle has been closed;
\* and the monitor releases the child scope only after it delivered the
\* Result.
C26_CompletionOrdering ==
    bg.job = "running" =>
        /\ bg.sent > 0 =>
              /\ bg.proc = "ended"
              /\ bg.collected
              /\ bg.res.out = (IF bg.capture = "enabled" THEN ProcessOutput ELSE <<>>)
              /\ bg.closed
              /\ r.file # "open"
        /\ bg.released => bg.sent = 1
        /\ (\E w \in ReturnedWaiters : bg.waiters[w].via # "ctx") => bg.sent = 1

\* C26 witness: the Result of a process that wrote to the capture has been
\* delivered and the child scope is not released yet
C26_Witness ==
    /\ bg.job = "running"
    /\ bg.sent = 1
    /\ bg.res.out = ProcessOutput
    /\ ~bg.released
    /\ bg.mon = "release"

\* C26 witness: the monitor has released the child scope
C26_WitnessReleased == bg.job = "running" /\ bg.released /\ bg.mon = "done"

\* What the claim asks of a start that failed: the handle closed, the child
\* scope cancelled, no monitor, no Background, no file left
CleanedUp ==
    /\ bg.closed
    /\ bg.child
    /\ bg.mon = "none"
    /\ bg.proc = "none"
    /\ bg.waiters = [w \in Waiters |-> IdleWaiter]
    /\ r.file # "open"
    /\ ~r.deleteOnClose
    /\ fs = {}

\* C27 as stated: after every start failure of the orchestrator, the system
\* calls of the cleanup not failing, the handle is closed, the child scope is
\* cancelled, there is no monitor and no Background, and no file stays.
C27_AsStated ==
    (bg.job \in {"failed", "panicked"} /\ bg.cleanup = {}) => CleanedUp

\* C27: what the code does.  Every start failure that StartBackground of the
\* handle returns as an error is cleaned up
C27_ReturnedErrorsCleanedUp ==
    (bg.job = "failed" /\ bg.cleanup = {}) => (CleanedUp /\ bg.err # Nil)

\* C27: a start denied by the policy has been cleaned up
C27_Denial ==
    /\ bg.job = "failed"
    /\ ErrorsAs(bg.err, "PolicyError") # Nil
    /\ CleanedUp

\* C27: a start whose fallback transition failed has been cleaned up
C27_FailedTransition ==
    /\ bg.job = "failed"
    /\ bg.pre.pkg = "emrun"
    /\ IsPermissionClass(bg.first)
    /\ bg.env # {}
    /\ CleanedUp

\* C27: the fallback start failed, StartBackground of the handle panicked,
\* and the temporary file is still there
C27_FallbackStartPanics ==
    /\ bg.job = "panicked"
    /\ bg.second # Nil
    /\ ~bg.closed
    /\ ~bg.child
    /\ \E f \in fs : f.name = r.name

\* C28 as stated: when the scope of the job was cancelled before its process
\* ended, every Wait() that has returned holds a Result whose error is the
\* cancellation error.
C28_AsStated ==
    \A w \in ReturnedWaiters :
        (bg.waiters[w].scope = "job" /\ bg.cancelAt = "running")
            => bg.waiters[w].res.err = Canceled

\* C28: what the code does.  The cancellation of the scope of the job
\* unblocks at once every Wait() that is blocked, with the cancellation error
\* and the process still running; and a Wait() called after the cancellation
\* while nothing can be received returns the cancellation error
C28_CancellationUnblocks ==
    [][/\ (bg.cancelAt = "never" /\ bg'.cancelAt = "running") =>
             \A w \in Waiters :
                 (bg.waiters[w].st = "blocked" /\ bg.waiters[w].scope = "job")
                     => /\ bg'.waiters[w].st = "returned"
                        /\ bg'.waiters[w].res = Result(0, Canceled, <<>>)
                        /\ bg'.proc = "running"
       /\ \A w \in Waiters :
             (/\ bg.waiters[w].st = "idle"
              /\ bg'.waiters[w].st # "idle"
              /\ bg'.waiters[w].scope = "job"
              /\ bg.child
              /\ ~CanReceive(bg.ch))
             => bg'.waiters[w] = Returned(bg'.waiters[w], caseCtx(bg.ch))]_vars

\* C28: a Wait() blocked when the job was cancelled has returned the
\* cancellation error and the process has not ended yet
C28_Unblocked ==
    /\ bg.cancelAt = "running"
    /\ bg.proc = "running"
    /\ bg.waiters[1].st = "returned"
    /\ bg.waiters[1].scope = "job"
    /\ bg.waiters[1].res = Result(0, Canceled, <<>>)

\* C28: the job was cancelled before its process ended, the process was
\* killed, and the first Wait() has returned the Result of the killed
\* process, whose error is the exit error
C28_KilledResultWins ==
    /\ bg.cancelAt = "running"
    /\ bg.state = Killed
    /\ bg.waiters[1].st = "returned"
    /\ bg.waiters[1].scope = "job"
    /\ bg.waiters[1].via = "done"
    /\ bg.waiters[1].res.err = ExitErrorOf(Killed)
    /\ bg.waiters[1].res.exitCode = -1

\* The exit code the claim gives for a wait error and a process state
ExpectedExitCode(waitErr, state) ==
    IF state \in ProcStates THEN state.code
    ELSE IF waitErr = Nil THEN 0
    ELSE IF waitErr = ExitErrorOf(Exited(0, "exit status 0")) THEN 0
    ELSE IF waitErr = ExitErrorOf(Exited(7, "exit status 7")) THEN 7
    ELSE -1

\* C29: the exit code of a Result.  It is the exit status of the process
\* when there is one (0 on success, 7 for exit 7 with a non-nil error);
\* without one it is 0 when the wait error is nil, the code carried by an
\* exit error, and -1 otherwise.
C29_ExitCode ==
    /\ bg.job = "exitCodeFrom" =>
          bg.res.exitCode = ExpectedExitCode(bg.res.err, bg.state)
    /\ (bg.job = "running" /\ bg.collected) =>
          /\ bg.res.exitCode = ExpectedExitCode(cmdWait(bg.state), bg.state)
          /\ bg.state = Exited(0, "exit status 0") => bg.res.exitCode = 0
          /\ bg.state = Exited(7, "exit status 7") =>
                (bg.res.exitCode = 7 /\ bg.res.err = ExitErrorOf(bg.state))
          /\ bg.state = NoState => (bg.res.exitCode = -1 /\ bg.res.err # Nil)
    /\ \A w \in ReturnedWaiters :
          bg.waiters[w].via = "done" =>
              bg.waiters[w].res.exitCode = ExpectedExitCode(cmdWait(bg.state), bg.state)

\* C29 witness: a waiter holds the Result of a process that exited 7
C29_Witness ==
    /\ bg.job = "running"
    /\ bg.state = Exited(7, "exit status 7")
    /\ \E w \in ReturnedWaiters :
          /\ bg.waiters[w].via = "done"
          /\ bg.waiters[w].res.exitCode = 7
          /\ bg.waiters[w].res.err # Nil

\* C29 witness: without a state the code comes from the exit error
C29_WitnessFromError ==
    /\ bg.job = "exitCodeFrom"
    /\ bg.state = NoState
    /\ bg.res.err = ExitErrorOf(Exited(7, "exit status 7"))
    /\ bg.res.exitCode = 7

\* C29 witness: neither a state nor an exit error
C29_WitnessUnknown ==
    /\ bg.job = "exitCodeFrom"
    /\ bg.state = NoState
    /\ bg.res.err = ErrorNew("boom")
    /\ bg.res.exitCode = -1

\* C29 witness: neither a state nor a wait error
C29_WitnessNoError ==
    /\ bg.job = "exitCodeFrom"
    /\ bg.state = NoState
    /\ bg.res.err = Nil
    /\ bg.res.exitCode = 0

\* C30: a waiter's own cancellation does not touch the job.  In the step in
\* which WaitWithContext returns because the context of the waiter, which is
\* not the scope of the job, is done, the Result it returns carries the error
\* of that context, the process, the scope of the job and the monitor are as
\* before, and the channel and the Result of the job are as before; and a
\* waiter that then receives gets the Result of the job.
C30_WaiterCancellationLeavesJob ==
    [][\A w \in Waiters :
          /\ (/\ bg.waiters[w].st # "returned"
              /\ bg'.waiters[w].st = "returned"
              /\ bg'.waiters[w].scope = "own"
              /\ bg'.waiters[w].via = "ctx")
             => /\ bg'.waiters[w].res = Result(0, Canceled, <<>>)
                /\ bg'.proc = bg.proc
                /\ bg'.state = bg.state
                /\ bg'.child = bg.child
                /\ bg'.mon = bg.mon
                /\ bg'.ch = bg.ch
                /\ bg'.res = bg.res
                /\ bg'.sent = bg.sent
                /\ \A v \in Waiters \ {w} : bg'.waiters[v] = bg.waiters[v]
                /\ <<r, fs>>' = <<r, fs>>
          /\ (/\ bg.waiters[w].st # "returned"
              /\ bg'.waiters[w].st = "returned"
              /\ bg'.waiters[w].via = "done")
             => bg'.waiters[w].res = bg'.res]_vars

\* C30 witness: the first waiter returned by the cancellation of its own
\* context while the process was running, nobody cancelled the job, and the
\* second waiter, with a live context of its own, has received the Result
C30_Witness ==
    /\ bg.cancelAt = "never"
    /\ bg.waiters[1].st = "returned"
    /\ bg.waiters[1].scope = "own"
    /\ bg.waiters[1].via = "ctx"
    /\ bg.waiters[2].st = "returned"
    /\ bg.waiters[2].scope = "own"
    /\ bg.waiters[2].via = "done"
    /\ bg.waiters[2].res = bg.res
    /\ bg.state \in NaturalEnds

\* C30 witness: a waiter returned by the cancellation of its own context with
\* the Result of the job in the channel, and the Result is still there
C30_WitnessNotConsumed ==
    /\ bg.waiters[1].st = "returned"
    /\ bg.waiters[1].scope = "own"
    /\ bg.waiters[1].via = "ctx"
    /\ bg.waiters[2].st = "idle"
    /\ bg.ch.buf = <<bg.res>>

\* C30 witness: a waiter returned by the cancellation of its own context and
\* the process is running
C30_WitnessProcessRuns ==
    /\ bg.waiters[1].st = "returned"
    /\ bg.waiters[1].scope = "own"
    /\ bg.waiters[1].via = "ctx"
    /\ bg.proc = "running"
    /\ ~bg.child

\* C31: resources are released without a waiter.  Once the process of a job
\* has ended, the monitor eventually has closed the handle, delivered the
\* Result, released the child scope and terminated, whether or not any
\* caller waits; and once it has, the handle is closed and a temporary file
\* the handle owned is removed when the removal did not fail.
C31_ReleasedWithoutWaiter ==
    /\ (bg.job = "running" /\ bg.proc = "ended")
          ~> (bg.mon = "done" /\ bg.closed /\ bg.sent = 1 /\ bg.released /\ bg.child)
    /\ [](bg.mon = "done" =>
             /\ r.file # "open"
             /\ ~r.deleteOnClose => \A f \in fs : f.name # r.name)

\* C31 witness: the monitor has terminated, no caller ever waited, the Result
\* is in the channel, and the temporary file of the fallback is removed
C31_Witness ==
    /\ bg.job = "running"
    /\ bg.mon = "done"
    /\ bg.sent = 1
    /\ bg.released
    /\ bg.waiters = [w \in Waiters |-> IdleWaiter]
    /\ bg.ch.buf = <<bg.res>>
    /\ r.pkg = "emrun"
    /\ r.name # MemfdName
    /\ fs = {}

\* C38: no waiter blocks forever.  Under fair scheduling of the monitor, a
\* Wait() that is blocked returns once the process has ended or the scope of
\* the job is cancelled; and a Wait() called when the channel is closed,
\* another waiter having taken the Result or not, or when the scope of the
\* job is cancelled, returns in the call.
C38_NoWaiterBlocksForever ==
    /\ \A w \in Waiters :
          (/\ bg.waiters[w].st = "blocked"
           /\ bg.waiters[w].scope = "job"
           /\ (bg.proc = "ended" \/ bg.child))
             ~> (bg.waiters[w].st = "returned")
    /\ [][\A w \in Waiters :
             (/\ bg.waiters[w].st = "idle"
              /\ bg'.waiters[w].st # "idle"
              /\ bg'.waiters[w].scope = "job"
              /\ (bg.ch.closed \/ bg.child))
             => bg'.waiters[w].st = "returned"]_vars

\* C38 witness: the first waiter took the Result, and a Wait() that started
\* after it has returned
C38_Witness ==
    /\ bg.waiters[1].st = "returned"
    /\ bg.waiters[1].via = "done"
    /\ bg.waiters[2].st = "returned"
    /\ bg.waiters[2].scope = "job"
    /\ bg.waiters[2].via = "closed"
    /\ bg.mon = "release"

\* C38 witness: a Wait() is blocked and the process has ended
C38_WitnessBlocked ==
    /\ bg.waiters[1].st = "blocked"
    /\ bg.waiters[1].scope = "job"
    /\ bg.proc = "ended"

\* C39: the error of closing the handle is folded into the Result only when
\* the Result has no error of its own.  Once the monitor has closed the
\* handle: when the wait gave an error the error of the Result is that error
\* whatever the close returned; when it gave none and the close failed it is
\* the error of the close; and the exit code is the one the wait gave.
C39_CloseErrorFolded ==
    (bg.job = "running" /\ bg.closed) =>
        /\ cmdWait(bg.state) # Nil => bg.res.err = cmdWait(bg.state)
        /\ (cmdWait(bg.state) = Nil /\ bg.closeErr # Nil) => bg.res.err = bg.closeErr
        /\ (cmdWait(bg.state) = Nil /\ bg.closeErr = Nil) => bg.res.err = Nil
        /\ bg.res.exitCode = WaitCommand(bg.state, bg.capture).exitCode
        /\ bg.res.out = WaitCommand(bg.state, bg.capture).out
        /\ \A w \in ReturnedWaiters : bg.waiters[w].via = "done" => bg.waiters[w].res = bg.res

\* C39 witness: the process exited 7, the close failed, and the Result
\* delivered holds the exit error
C39_Witness ==
    /\ bg.job = "running"
    /\ bg.sent = 1
    /\ bg.state = Exited(7, "exit status 7")
    /\ bg.closeErr # Nil
    /\ bg.res.err = ExitErrorOf(bg.state)
    /\ bg.res.exitCode = 7

\* C39 witness: the process exited 0, the close failed, and the Result
\* delivered holds the error of the close with exit code 0
C39_WitnessCloseError ==
    /\ bg.job = "running"
    /\ bg.sent = 1
    /\ bg.state = Exited(0, "exit status 0")
    /\ bg.closeErr # Nil
    /\ bg.res.err = bg.closeErr
    /\ bg.res.exitCode = 0

\* The start of a job on an anonymous-memory handle whose first start failed
\* with a permission-class error, whose fallback transition succeeded, and
\* whose second start failed too
SecondStartFailed ==
    /\ bg.job \in {"failed", "panicked"}
    /\ IsMemfd(bg.pre)
    /\ isPermissionErr(bg.first)
    /\ Len(bg.calls) = 2
    /\ bg.second # Nil

\* C36 as stated: when the second start fails too, StartBackground of the
\* handle returns the error of the second start as an error value, and the
\* orchestrator closes the handle and removes the temporary file.
C36_AsStated ==
    SecondStartFailed =>
        /\ bg.job = "failed"
        /\ bg.err = bg.second
        /\ bg.cleanup = {} => CleanedUp

\* C36: what the code does.  Every start whose second start fails panics on
\* the nil capture; the orchestrator is left before its cleanup, with the
\* handle file-backed, the temporary file on disk and no error returned
C36_SecondStartFailurePanics ==
    SecondStartFailed =>
        /\ bg.job = "panicked"
        /\ bg.err = Nil
        /\ ~bg.closed
        /\ ~bg.child
        /\ ~IsMemfd(r)
        /\ r.deleteOnClose
        /\ \E f \in fs : f.name = r.name /\ f.content = r.payload

\* C36: the second start was refused with a permission denial as the first
C36_BothDenied ==
    /\ SecondStartFailed
    /\ bg.first = PathError(Errno("EACCES"))
    /\ bg.second = PathError(Errno("EACCES"))
    /\ bg.calls[2].path = r.name

-----------------------------------------------------------------------------
(* Claims about the descriptor of a handle (Spec)                            *)

\* C37 as stated: a handle that is not yet closed never names a released
\* descriptor.  No operation other than the owner's Close takes a handle
\* that reports anonymous memory with its descriptor open to one that
\* reports anonymous memory with its descriptor closed.
C37_AsStated ==
    [][(/\ r.pkg = "emrun"
        /\ IsMemfd(r)
        /\ r.file = "open"
        /\ last'.op # "Close"
        /\ r'.pkg = "emrun"
        /\ IsMemfd(r'))
       => r'.file = "open"]_vars

\* C37: what the code does.  The step holds of every operation except a
\* fallback transition that fails at the creation of the temporary file;
\* that one has closed the descriptor and left the name
C37_ExceptFailedCreate ==
    [][(/\ r.pkg = "emrun"
        /\ IsMemfd(r)
        /\ r.file = "open"
        /\ last'.op # "Close"
        /\ r'.pkg = "emrun"
        /\ IsMemfd(r'))
       => \/ r'.file = "open"
          \/ /\ "create" \in last'.env
             /\ r'.file = "closed"
             /\ r'.name = r.name
             /\ last'.err # Nil]_vars

\* C37: the owner never closed the handle; a Run was refused, its fallback
\* failed at os.CreateTemp, and the handle names /proc/self/fd/N with the
\* descriptor closed
C37_Dangling ==
    /\ last.op = "Run"
    /\ IsMemfd(last.pre)
    /\ last.pre.file = "open"
    /\ "create" \in last.env
    /\ IsMemfd(r)
    /\ r.name = MemfdName
    /\ r.file = "closed"

-----------------------------------------------------------------------------
(* SpecClassify: isPermissionErr applied to one error, as TestIsPermissionErr *)
(* does.  last holds the error, whether the call was made, and its result.    *)

\* Errors that wrap nothing: the three permission signals, another errno,
\* an error of another kind, the exit error of a process
LeafErrs ==
    {ErrPermission, Errno("EACCES"), Errno("EPERM"), Errno("ENOENT"),
     ErrorNew("boom"), ExitError}

\* err inside a *os.PathError, a *exec.Error, or a fmt.Errorf with %w
WrapsOf(err) == {PathError(err), ExecError(err), Errorf("run", <<err>>)}

\* The errors isPermissionErr is called with: nil, the leaves, the leaves
\* wrapped once and twice, and two leaves joined by one fmt.Errorf
ClassifyErrs ==
    {Nil} \cup LeafErrs
        \cup UNION {WrapsOf(e) : e \in LeafErrs}
        \cup UNION {WrapsOf(w) : w \in UNION {WrapsOf(e) : e \in LeafErrs}}
        \cup {Errorf("both", <<a, b>>) : a \in LeafErrs, b \in LeafErrs}

InitClassify ==
    /\ \E e \in ClassifyErrs :
          last = [op |-> "isPermissionErr", err |-> e, called |-> FALSE, result |-> FALSE]
    /\ r = [open |-> FALSE]
    /\ fs = {}
    /\ bg = [job |-> "none"]
    /\ cc = [op |-> "none"]
    /\ PolicyIdle
    /\ ParseIdle

\* got := isPermissionErr(tc.err)
CallIsPermissionErr ==
    /\ ~last.called
    /\ last' = [last EXCEPT !.called = TRUE, !.result = isPermissionErr(last.err)]
    /\ UNCHANGED <<r, fs, ctxs, pols, hist, plast, pin, pout, bg, cc>>

NextClassify == CallIsPermissionErr

SpecClassify == InitClassify /\ [][NextClassify]_vars

\* Whether the chain of err contains the permission signal of the operating
\* system: os.ErrPermission, EACCES or EPERM
HasPermissionSignal(err) ==
    \E e \in ErrorChain(err) :
        \/ e = ErrPermission
        \/ e = Errno("EACCES")
        \/ e = Errno("EPERM")

\* C40: the classifier that triggers the fallback.  isPermissionErr returns
\* true exactly for the errors whose chain contains os.ErrPermission, EACCES
\* or EPERM, wrapped in a path error or an exec error or not; it returns
\* false for nil, and for the exit error of a process.
C40_PermissionClassifier ==
    last.called =>
        /\ last.result = HasPermissionSignal(last.err)
        /\ last.err = Nil => ~last.result
        /\ last.err = ExitError => ~last.result
        /\ last.err \in WrapsOf(ExitError) => ~last.result

\* C40 witness: EPERM inside a path error inside an exec error is classified
\* as a permission error
C40_Witness ==
    /\ last.called
    /\ last.err = ExecError(PathError(Errno("EPERM")))
    /\ last.result

\* C40 witness: the exit error of a process is not
C40_WitnessExit ==
    /\ last.called
    /\ last.err = ExitError
    /\ ~last.result

\* C40 witness: ENOENT inside a path error is not
C40_WitnessOther ==
    /\ last.called
    /\ last.err = PathError(Errno("ENOENT"))
    /\ ~last.result

-----------------------------------------------------------------------------
(* Claims about the capture of combined output (SpecCapture)                 *)

\* The caller bound the stdout or the stderr of the command
CallerBound == cc.orig.stdout # "nil" \/ cc.orig.stderr # "nil"

\* C32: combined capture never touches caller-owned streams.  When combined
\* output is requested of a command whose stdout or stderr the caller bound,
\* RunCommand and StartCommand return the configuration error, the invoker
\* is not called, no capture is returned, and the stdout and stderr of the
\* command are as the caller set them.
C32_CombinedLeavesCallerStreams ==
    (cc.phase # "idle" /\ cc.combined /\ CallerBound) =>
        /\ cc.phase = "failed"
        /\ cc.err = ErrorNew("combined output requested with configured stdout or stderr")
        /\ cc.invoked = 0
        /\ ~cc.returned
        /\ cc.out = NilSlice
        /\ cc.cmd = cc.orig
        /\ cc.buf = <<>>
        /\ cc.sinks = [w |-> <<>>, e |-> <<>>]

\* C32 witness: StartCommand with combined output on a command with its
\* stdout bound, as TestStartCommandCombinedOutputConfiguredWriters
C32_Witness ==
    /\ cc.op = "StartCommand"
    /\ cc.combined
    /\ cc.orig.stdout = "w"
    /\ cc.orig.stderr = "nil"
    /\ cc.phase = "failed"

\* C32 witness: RunCommand with combined output on a command with its stderr
\* bound
C32_WitnessRun ==
    /\ cc.op = "RunCommand"
    /\ cc.combined
    /\ cc.orig.stdout = "nil"
    /\ cc.orig.stderr = "e"
    /\ cc.phase = "failed"

\* Finish or Restore has been called on the capture: by RunCommand or
\* WaitCommand, by StartCommand when the start failed, or by the caller
Released ==
    \/ cc.phase = "done"
    \/ cc.releases > 0
    \/ cc.phase = "failed" /\ cc.invoked = 1

C33_WitnessStartFailed ==
    /\ cc.capture.enabled
    /\ cc.op = "StartCommand"
    /\ cc.phase = "failed"
    /\ cc.err = PathError(Errno("EACCES"))
    /\ cc.capture.resets = 1
    /\ cc.cmd = cc.orig

C34_WitnessRun ==
    /\ cc.op = "RunCommand"
    /\ cc.combined
    /\ cc.phase = "done"
    /\ Len(cc.writes) = 3
    /\ cc.writes[1].stream = "stderr"
    /\ cc.out = Slice(ErrBytes \o cc.writes[2].bytes \o cc.writes[3].bytes)

C35_WitnessRun ==
    /\ cc.op = "RunCommand"
    /\ ~cc.combined
    /\ cc.phase = "done"
    /\ cc.orig.stdout = "w"
    /\ cc.orig.stderr = "e"
    /\ cc.sinks.w = OutBytes
    /\ cc.sinks.e = ErrBytes
    /\ cc.out = NilSlice

=============================================================================
